---- MODULE Spec2Model ----
(***************************************************************************)
(* A model of the application object of the framework: its registration   *)
(* surface (routes, listeners, middlewares, injection), route resolution   *)
(* and the request pipeline (atom/app.py), with the request object of      *)
(* railway/request.py.                                                     *)
(*                                                                         *)
(* SpecReg   : the registration surface, driven by arbitrary calls.        *)
(* SpecServe : one connection of a configured application handling         *)
(*             requests.                                                   *)
(***************************************************************************)
EXTENDS Integers, Sequences, FiniteSets, TLC

(***************************************************************************)
(* Bounds                                                                  *)
(***************************************************************************)
\* registration calls made in one behaviour of SpecReg
MaxOps == 3
\* requests arriving on the connection in one behaviour of SpecServe
MaxReq == 2
\* start() and close() calls made on one application
MaxCalls == 3
\* dispatch calls made on one application
MaxDispatch == 2
\* timeouts that pass while one body is read
MaxWaits == 2
\* stream() and read() calls made on one request
MaxBodyCalls == 2
\* calls made on one Client
MaxClientOps == 3
\* pause_writing signals of one transport
MaxPauses == 2
\* workers per address family asked of dualstack_ipv6
MaxWorkers == 3

(***************************************************************************)
(* Paths and patterns.  A path is a sequence of segments; a route's path   *)
(* is a regular expression made of literal segments and named groups       *)
(* (?P<name>[^/]+), given here segment by segment.                         *)
(***************************************************************************)
Lit(s) == [kind |-> "lit", name |-> s]
Par(s) == [kind |-> "par", name |-> s]

\* re.fullmatch(pattern, path): every segment matches and nothing is left over
FullMatch(pattern, path) ==
    /\ Len(pattern) = Len(path)
    /\ \A i \in 1..Len(pattern) :
          pattern[i].kind = "lit" => pattern[i].name = path[i]

\* match.groupdict(): the named groups and the text each one captured
GroupDict(pattern, path) ==
    { <<pattern[i].name, path[i]>> : i \in {j \in 1..Len(pattern) : pattern[j].kind = "par"} }

(***************************************************************************)
(* The objects of the program under analysis.  Route, Middleware and      *)
(* Listener objects have identity; their immutable attributes are given    *)
(* by the tables below, their mutable ones (the callbacks that inject      *)
(* rebinds) are program state.                                             *)
(***************************************************************************)
RouteIds == 1..6

\* path, method, kind, the route's own Middleware objects and whether an
\* after-request callback is set
RoutePath(r) ==
    CASE r = 1 -> <<Lit("hello")>>
      [] r = 2 -> <<Lit("hello")>>
      [] r = 3 -> <<Lit("users"), Par("id")>>
      [] r = 4 -> <<Lit("hello")>>
      [] r = 5 -> <<Lit("ws"), Par("room")>>
      [] r = 6 -> <<Lit("hello")>>

RouteMethod(r) == IF r = 2 THEN "POST" ELSE "GET"

RouteIsWebsocket(r) == r = 5

RouteMiddlewares(r) ==
    CASE r = 1 -> <<"m1", "m2">>
      [] r = 3 -> <<"m3">>
      [] OTHER -> <<>>

RouteHasAfterRequest(r) == r \in {1, 3}

\* the annotation of the handler's parameter of that name
RouteAnnotation(r, key) == IF r = 3 /\ key = "id" THEN "int" ELSE "empty"

RouteKey(r) == <<RoutePath(r), RouteMethod(r)>>

\* Middleware objects: those of the routes and those an injectable declares
MwIds == {"m1", "m2", "m3", "g1"}

\* Listener objects an injectable declares: event and whether the callback
\* is a coroutine function
ListenerIds == {"l1", "l2"}
ListenerEvent(l) == IF l = "l1" THEN "on_error" ELSE "on_startup"

\* plain functions a program registers directly, as listeners and as middlewares
UserListeners   == {"u_err", "u_sync"}
UserMiddlewares == {"u_mw", "u_sync"}

IsCoroutineFunction(fn) == fn # "u_sync" /\ fn # "l2"

\* Injectables: the lists collected on the object
Injectables == {"res", "bad"}

ObjRoutes(obj)      == IF obj = "res" THEN <<3, 4>> ELSE <<>>
ObjListeners(obj)   == IF obj = "res" THEN <<"l1">> ELSE <<"l2">>
ObjMiddlewares(obj) == IF obj = "res" THEN <<"g1">> ELSE <<>>

Events == {"on_error", "on_startup"}

(***************************************************************************)
(* State                                                                   *)
(***************************************************************************)
VARIABLES
    \* Application registration state
    routes,        \* router.routes: the routes in insertion order of their keys
    listeners,     \* _listeners: event name -> list of Listener entries
    middlewares,   \* _middlewares: list of global Middleware entries
    resources,     \* _resources: names of the registered resources
    \* mutable attributes of the declared objects
    robj,          \* per Route: how often callback / _after_request were wrapped,
                   \* and its middlewares list
    mobj,          \* per Middleware: how often its callback was wrapped
    lobj,          \* per Listener: how often its callback was wrapped
    \* the calls made so far
    nops,          \* number of registration calls made
    lastOp,        \* the last call and how it ended
    snap,          \* registration state before the last successful inject
    \* the running application and one of its connections
    loop,          \* _loop is set (the application was started)
    active,        \* _active_listeners: the tracked listener tasks
    wstasks,       \* _websocket_tasks: the tracked websocket handler tasks
    conn,          \* the connection: "open", "websocket" or "closed"
    writer,        \* the connection's StreamWriter: "open" or "closed"
    wire,          \* what was written to the connection, write by write
    nreq,          \* number of requests parsed on the connection
    cur,           \* the request being handled: the locals of _request_handler
    orphans,       \* middleware tasks of earlier requests that are still running
    \* the application's lifecycle
    workers,       \* per Worker of _workers: "idle", "serving" or "stopped"
    worker_tasks,  \* _worker_tasks: the tasks start() created, in order
    closed,        \* _closed
    calls,         \* the start() and close() calls made: where each one is
    \* response conversion
    parsed,        \* the last call of parse_response: its argument and outcome
    \* one request: its WebSocket handshake and its body
    shake,         \* the last call of is_websocket / handshake: the request and the outcome
    stream,        \* a call of Request.stream / Request.read and the connection's reader
    \* the client side of a connection
    client,        \* one Client, its ClientProtocol and the calls made on it
    \* the dual-stack constructor
    dual,          \* a call of dualstack_ipv6: its arguments, position and application
    \* run()
    evloop         \* the event loop that run() drives: where run() is and what is ready

regVars == <<routes, listeners, middlewares, resources, robj, mobj, lobj, nops, lastOp, snap>>

serveVars == <<loop, active, wstasks, conn, writer, wire, nreq, cur, orphans>>

lifeVars == <<workers, worker_tasks, closed, calls>>

ioVars == <<shake, stream, client, dual, evloop>>

vars == <<regVars, serveVars, lifeVars, parsed, ioVars>>

(***************************************************************************)
(* Helpers                                                                 *)
(***************************************************************************)
Range(s) == { s[i] : i \in 1..Len(s) }

\* list.remove(x): the list without its first item equal to x
RemoveAt(s, k) == [i \in 1..(Len(s) - 1) |-> IF i < k THEN s[i] ELSE s[i + 1]]

FirstIndex(s, x) == CHOOSE i \in 1..Len(s) : s[i] = x /\ \A j \in 1..(i - 1) : s[j] # x

\* a callable: the function fn wrapped depth times by functools.partial(.., obj),
\* so that a call passes the receiver depth times before the caller's arguments
Callback(fn, depth) == [fn |-> fn, depth |-> depth]

\* the outcome of a call: the state it leaves and the exception it raised
Ok(st)       == [st |-> st, err |-> "none"]
Raise(st, e) == [st |-> st, err |-> e]

\* the registration state as one value
Reg ==
    [routes |-> routes, listeners |-> listeners, middlewares |-> middlewares,
     resources |-> resources, robj |-> robj, mobj |-> mobj, lobj |-> lobj]

(***************************************************************************)
(* Router: a mapping keyed by (path, method), iterated in insertion order  *)
(***************************************************************************)
\* route in router
RouterContains(rs, r) == \E i \in 1..Len(rs) : RouteKey(rs[i]) = RouteKey(r)

\* router.add_route(route): routes[(path, method)] = route
RouterAddRoute(rs, r) ==
    IF RouterContains(rs, r)
    THEN [i \in 1..Len(rs) |-> IF RouteKey(rs[i]) = RouteKey(r) THEN r ELSE rs[i]]
    ELSE Append(rs, r)

\* router.routes.pop((path, method))
RouterPop(rs, key) == SelectSeq(rs, LAMBDA x : RouteKey(x) # key)

(***************************************************************************)
(* Application: routes                                                     *)
(***************************************************************************)
\* a mutation of add_route that never rejects a route
add_route_unchecked(st, r) == Ok([st EXCEPT !.routes = RouterAddRoute(@, r)])

add_route(st, r) ==
    IF RouterContains(st.routes, r)
    THEN Raise(st, "RegistrationError")
    ELSE Ok([st EXCEPT !.routes = RouterAddRoute(@, r)])

remove_route(st, r) ==
    IF ~RouterContains(st.routes, r)
    THEN Raise(st, "KeyError")
    ELSE Ok([st EXCEPT !.routes = RouterPop(@, RouteKey(r))])

(***************************************************************************)
(* Application: listeners and middlewares                                  *)
(***************************************************************************)
\* Listener(coro, name) and Middleware(callback): a fresh object per call
Listener(cb, event) == [callback |-> cb, event |-> event]
Middleware(cb)      == [callback |-> cb]

add_event_listener(st, cb, name) ==
    IF ~IsCoroutineFunction(cb.fn)
    THEN Raise(st, "RegistrationError")
    ELSE LET ls == st.listeners
             new == Listener(cb, name)
         IN Ok([st EXCEPT !.listeners =
                  IF name \in DOMAIN ls
                  THEN [ls EXCEPT ![name] = Append(@, new)]
                  ELSE [e \in (DOMAIN ls) \cup {name} |->
                          IF e = name THEN <<new>> ELSE ls[e]]])

\* _listeners[listener.event].remove(listener)
remove_event_listener(st, listener) ==
    IF listener.event \notin DOMAIN st.listeners
    THEN Raise(st, "KeyError")
    ELSE IF listener \notin Range(st.listeners[listener.event])
    THEN Raise(st, "ValueError")
    ELSE Ok([st EXCEPT !.listeners[listener.event] =
                RemoveAt(@, FirstIndex(@, listener))])

add_middleware(st, cb) ==
    Ok([st EXCEPT !.middlewares = Append(@, Middleware(cb))])

\* Application.middleware: the decorator, which checks its argument
middleware(st, cb) ==
    IF ~IsCoroutineFunction(cb.fn)
    THEN Raise(st, "RegistrationError")
    ELSE add_middleware(st, cb)

remove_middleware(st, mw) ==
    IF mw \notin Range(st.middlewares)
    THEN Raise(st, "ValueError")
    ELSE Ok([st EXCEPT !.middlewares = RemoveAt(@, FirstIndex(@, mw))])

(***************************************************************************)
(* Application: injection                                                  *)
(***************************************************************************)
\* the body of inject's loop over obj.__routes__: rebind the route's callback,
\* its after-request callback and its middlewares' callbacks, then add_route
InjectRoute(st, r) ==
    LET bound == [st EXCEPT
                    !.robj[r] = [cb    |-> @.cb + 1,
                                 after |-> IF RouteHasAfterRequest(r)
                                           THEN @.after + 1 ELSE @.after,
                                 middlewares |-> @.middlewares],
                    !.mobj = [m \in MwIds |->
                                IF m \in Range(RouteMiddlewares(r))
                                THEN @[m] + 1 ELSE @[m]]]
    IN add_route(bound, r)

\* the body of inject's loop over obj.__listeners__
InjectListener(st, l) ==
    LET bound == [st EXCEPT !.lobj[l] = @ + 1]
    IN add_event_listener(bound, Callback(l, bound.lobj[l]), ListenerEvent(l))

\* the body of inject's loop over obj.__middlewares__
InjectMiddleware(st, m) ==
    LET bound == [st EXCEPT !.mobj[m] = @ + 1]
    IN add_middleware(bound, Callback(m, bound.mobj[m]))

\* the Listener and Middleware objects that obj declares, as eject passes them
DeclaredListener(st, l)   == Listener(Callback(l, st.lobj[l]), ListenerEvent(l))
DeclaredMiddleware(st, m) == Middleware(Callback(m, st.mobj[m]))

EjectListener(st, l)   == remove_event_listener(st, DeclaredListener(st, l))
EjectMiddleware(st, m) == remove_middleware(st, DeclaredMiddleware(st, m))

\* the body of one of the loops of inject and eject, applied to one entry
Step(body, st, x) ==
    CASE body = "inject_route"      -> InjectRoute(st, x)
      [] body = "inject_listener"   -> InjectListener(st, x)
      [] body = "inject_middleware" -> InjectMiddleware(st, x)
      [] body = "eject_route"       -> remove_route(st, x)
      [] body = "eject_listener"    -> EjectListener(st, x)
      [] body = "eject_middleware"  -> EjectMiddleware(st, x)

\* a for loop over xs from its i-th entry on: the first exception ends it
RECURSIVE ForEach(_, _, _, _)
ForEach(body, st, xs, i) ==
    IF i > Len(xs) THEN Ok(st)
    ELSE LET res == Step(body, st, xs[i])
         IN IF res.err # "none" THEN res ELSE ForEach(body, res.st, xs, i + 1)

inject(st, obj) ==
    LET a == ForEach("inject_route", st, ObjRoutes(obj), 1) IN
    IF a.err # "none" THEN a ELSE
    LET b == ForEach("inject_listener", a.st, ObjListeners(obj), 1) IN
    IF b.err # "none" THEN b ELSE
    ForEach("inject_middleware", b.st, ObjMiddlewares(obj), 1)

eject(st, obj) ==
    LET a == ForEach("eject_route", st, ObjRoutes(obj), 1) IN
    IF a.err # "none" THEN a ELSE
    LET b == ForEach("eject_listener", a.st, ObjListeners(obj), 1) IN
    IF b.err # "none" THEN b ELSE
    ForEach("eject_middleware", b.st, ObjMiddlewares(obj), 1)

add_resource(st, obj) ==
    LET a == inject(st, obj) IN
    IF a.err # "none" THEN a
    ELSE Ok([a.st EXCEPT !.resources = @ \cup {obj}])

remove_resource(st, name) ==
    IF name \notin st.resources THEN Ok(st)
    ELSE eject([st EXCEPT !.resources = @ \ {name}], name)

(***************************************************************************)
(* Route resolution                                                        *)
(***************************************************************************)
Methods == {"GET", "POST", "DELETE"}

ReqPaths == {<<"hello">>, <<"users", "42">>, <<"users", "abc">>, <<"ws", "lobby">>, <<"nope">>}

\* what _resolve returns or raises.  MethodNotAllowed is constructed from a
\* reason string alone: no method is handed to it.
Resolved(r, args)  == [exc |-> "none", route |-> r, args |-> args, allowed |-> {}]
NotFound           == [exc |-> "NotFound", route |-> 0, args |-> {}, allowed |-> {}]
MethodNotAllowed   == [exc |-> "MethodNotAllowed", route |-> 0, args |-> {}, allowed |-> {}]

\* the loop of _resolve over the router, from its i-th route on
RECURSIVE ResolveFrom(_, _, _, _)
ResolveFrom(rs, i, path, method) ==
    IF i > Len(rs) THEN NotFound
    ELSE IF ~FullMatch(RoutePath(rs[i]), path) THEN ResolveFrom(rs, i + 1, path, method)
    ELSE IF RouteMethod(rs[i]) # method THEN MethodNotAllowed
    ELSE Resolved(rs[i], GroupDict(RoutePath(rs[i]), path))

resolve(rs, path, method) == ResolveFrom(rs, 1, path, method)

(***************************************************************************)
(* Event dispatch                                                          *)
(***************************************************************************)
\* 'on_' + name
EventKey(name) ==
    CASE name = "error" -> "on_error"
      [] name = "startup" -> "on_startup"
      [] name = "shutdown" -> "on_shutdown"

\* the methods named on_<event> that Application itself defines
OwnMethods == {"on_error"}

\* _ensure_listeners: a for loop over the list that removes from the list
RECURSIVE EnsureFrom(_, _)
EnsureFrom(ts, i) ==
    IF i > Len(ts) THEN ts
    ELSE IF ts[i].state \in {"done", "raised"} THEN EnsureFrom(RemoveAt(ts, i), i + 1)
    ELSE EnsureFrom(ts, i + 1)

ensure_listeners(ts) == EnsureFrom(ts, 1)

ensure_websockets(ts) == EnsureFrom(ts, 1)

\* a mutation of the task creation: the listener is awaited where it is called
Task_awaited(cb, key, payload) == [cb |-> cb, event |-> key, args |-> payload, state |-> "done"]

\* loop.create_task(listener(*args, **kwargs)): a task that has not run yet
Task(cb, key, payload) == [cb |-> cb, event |-> key, args |-> payload, state |-> "pending"]

\* dispatch(name, *args): the tracked listener tasks it leaves
dispatch(act, ls, lp, name, payload) ==
    IF ~lp THEN act
    ELSE LET kept == ensure_listeners(act)
             key  == EventKey(name)
             cbs  == IF key \in DOMAIN ls
                     THEN [i \in 1..Len(ls[key]) |-> ls[key][i].callback]
                     ELSE IF key \in OwnMethods THEN <<Callback(key, 1)>>
                     ELSE <<>>
         IN kept \o [i \in 1..Len(cbs) |-> Task(cbs[i], key, payload)]

(***************************************************************************)
(* SpecReg: the registration surface under arbitrary calls                 *)
(***************************************************************************)
\* routes a program registers itself; the others are declared by injectables
DirectRoutes == {1, 2, 5, 6}

NoRet == Resolved(0, {})

Op(op, arg, err) ==
    [op |-> op, arg |-> arg, err |-> err, ret |-> NoRet, recv |-> 0, launched |-> <<>>]

\* the part of the registration state that inject and eject are about
View(st) == [routes |-> Range(st.routes), listeners |-> st.listeners,
             middlewares |-> st.middlewares]

\* before the first request of a connection
NoRequest ==
    [id |-> 0, path |-> <<>>, method |-> "", pc |-> "none", closed |-> FALSE,
     reqroute |-> 0, route |-> 0, kwargs |-> {}, mws |-> <<>>, mwst |-> <<>>,
     runs |-> <<>>, started |-> <<>>, closeCalled |-> FALSE,
     handler |-> "none", recv |-> 0, ret |-> "none", chunks |-> <<>>,
     resp |-> "none", errors |-> <<>>, after |-> "none", outcome |-> "none"]

\* the workers _add_workers creates
WorkerIds == {1, 2}

\* no start() or close() was called
NoCalls == [starts |-> 0, close |-> <<>>, dispatches |-> 0]

\* parse_response was not called
NoParse == [called |-> FALSE, tuple |-> FALSE, type |-> "none", own |-> 0,
            int |-> TRUE, code |-> 0, exc |-> "none", resp |-> "none", status |-> 0,
            identity |-> FALSE]

\* is_websocket and handshake were not called
NoShake == [op |-> "none", method |-> "", version |-> "", present |-> {}, upgrade |-> "",
            wsversion |-> "", key |-> "", ret |-> "none", exc |-> "none", written |-> <<>>]

\* no body is being read
NoStream == [pc |-> "none", op |-> "none", length |-> 0, timeout |-> FALSE, passed |-> FALSE,
             buffered |-> 0, coming |-> 0, eof |-> FALSE, yielded |-> 0, timeouts |-> 0,
             exc |-> "none", taken |-> 0, body |-> <<>>, rets |-> <<>>, ncalls |-> 0]

\* a Client as __init__ leaves it: no protocol, not connected, not closed; no
\* call made on it and no signal received from a transport
NoClient == [protocol |-> FALSE, connected |-> FALSE, closed |-> FALSE, made |-> FALSE,
             waiter |-> "None", wwaiter |-> 0, futs |-> <<>>, paused |-> FALSE,
             pauses |-> 0, npause |-> 0, nresume |-> 0, lost |-> "no", ops |-> <<>>]

\* run() was not called
NoLoop == [pc |-> "none", ready |-> <<>>, todo |-> 0, stopping |-> FALSE, k |-> 0]

\* dualstack_ipv6 was not called
NoDual == [pc |-> "none", n |-> 0, port |-> 0, app_port |-> 0, id |-> 0, i |-> 0,
           built |-> <<>>, workers |-> <<>>, worker_count |-> 0, exc |-> "none"]

\* the lifecycle state __init__ leaves
Constructed ==
    /\ workers = [w \in WorkerIds |-> "idle"]
    /\ worker_tasks = <<>>
    /\ closed = FALSE
    /\ calls = NoCalls

\* an application that was not started and serves nothing
Idle ==
    /\ loop = FALSE
    /\ active = <<>>
    /\ wstasks = <<>>
    /\ conn = "closed"
    /\ writer = "closed"
    /\ wire = <<>>
    /\ nreq = 0
    /\ cur = NoRequest
    /\ orphans = {}

InitReg ==
    /\ Idle
    /\ Constructed
    /\ parsed = NoParse
    /\ shake = NoShake
    /\ stream = NoStream
    /\ client = NoClient
    /\ dual = NoDual
    /\ evloop = NoLoop
    /\ routes = <<>>
    /\ listeners = <<>>
    /\ middlewares = <<>>
    /\ resources = {}
    /\ robj = [r \in RouteIds |-> [cb |-> 0, after |-> 0, middlewares |-> RouteMiddlewares(r)]]
    /\ mobj = [m \in MwIds |-> 0]
    /\ lobj = [l \in ListenerIds |-> 0]
    /\ nops = 0
    /\ lastOp = Op("init", 0, "none")
    /\ snap = [obj |-> "none", view |-> [routes |-> {}, listeners |-> <<>>, middlewares |-> <<>>]]

\* a registration call ended as res: the state it left is the new state
Commit(res) ==
    /\ routes' = res.st.routes
    /\ listeners' = res.st.listeners
    /\ middlewares' = res.st.middlewares
    /\ resources' = res.st.resources
    /\ robj' = res.st.robj
    /\ mobj' = res.st.mobj
    /\ lobj' = res.st.lobj
    /\ nops' = nops + 1
    /\ UNCHANGED <<serveVars, lifeVars, parsed, ioVars>>

Forget == snap' = [obj |-> "none", view |-> View(Reg)]

AddRoute(r) ==
    /\ nops < MaxOps
    /\ LET res == add_route(Reg, r)
       IN Commit(res) /\ lastOp' = Op("add_route", r, res.err)
    /\ Forget

RemoveRoute(r) ==
    /\ nops < MaxOps
    /\ LET res == remove_route(Reg, r)
       IN Commit(res) /\ lastOp' = Op("remove_route", r, res.err)
    /\ Forget

AddEventListener(fn, name) ==
    /\ nops < MaxOps
    /\ LET res == add_event_listener(Reg, Callback(fn, 0), name)
       IN Commit(res) /\ lastOp' = Op("add_event_listener", <<fn, name>>, res.err)
    /\ Forget

RemoveEventListener(listener) ==
    /\ nops < MaxOps
    /\ LET res == remove_event_listener(Reg, listener)
       IN Commit(res) /\ lastOp' = Op("remove_event_listener", listener, res.err)
    /\ Forget

\* the decorator Application.middleware
RegisterMiddleware(fn) ==
    /\ nops < MaxOps
    /\ LET res == middleware(Reg, Callback(fn, 0))
       IN Commit(res) /\ lastOp' = Op("middleware", fn, res.err)
    /\ Forget

RemoveMiddleware(mw) ==
    /\ nops < MaxOps
    /\ LET res == remove_middleware(Reg, mw)
       IN Commit(res) /\ lastOp' = Op("remove_middleware", mw, res.err)
    /\ Forget

Inject(obj) ==
    /\ nops < MaxOps
    /\ LET res == inject(Reg, obj)
       IN /\ Commit(res)
          /\ lastOp' = Op("inject", obj, res.err)
          /\ snap' = IF res.err = "none" THEN [obj |-> obj, view |-> View(Reg)]
                     ELSE [obj |-> "none", view |-> View(Reg)]

Eject(obj) ==
    /\ nops < MaxOps
    /\ LET res == eject(Reg, obj)
       IN Commit(res) /\ lastOp' = Op("eject", obj, res.err)
    /\ UNCHANGED snap

AddResource(obj) ==
    /\ nops < MaxOps
    /\ LET res == add_resource(Reg, obj)
       IN /\ Commit(res)
          /\ lastOp' = Op("add_resource", obj, res.err)
          /\ snap' = IF res.err = "none" THEN [obj |-> obj, view |-> View(Reg)]
                     ELSE [obj |-> "none", view |-> View(Reg)]

RemoveResource(name) ==
    /\ nops < MaxOps
    /\ LET res == remove_resource(Reg, name)
       IN Commit(res) /\ lastOp' = Op("remove_resource", name, res.err)
    /\ UNCHANGED snap

\* _resolve(request) on the routes registered so far
Resolve(path, method) ==
    /\ lastOp' = [Op("resolve", <<path, method>>, resolve(routes, path, method).exc)
                    EXCEPT !.ret = resolve(routes, path, method)]
    /\ UNCHANGED <<routes, listeners, middlewares, resources, robj, mobj, lobj, nops, snap, serveVars, lifeVars, parsed, ioVars>>

\* the framework calls a registered callback: the callable passes its receiver
\* once per functools.partial wrapped around the function
CallRoute(r) ==
    /\ r \in Range(routes)
    /\ lastOp' = [Op("call_route", r, "none") EXCEPT !.recv = robj[r].cb]
    /\ UNCHANGED <<routes, listeners, middlewares, resources, robj, mobj, lobj, nops, snap, serveVars, lifeVars, parsed, ioVars>>

CallListener(e, i) ==
    /\ e \in DOMAIN listeners
    /\ i \in 1..Len(listeners[e])
    /\ lastOp' = [Op("call_listener", listeners[e][i].callback.fn, "none")
                    EXCEPT !.recv = listeners[e][i].callback.depth]
    /\ UNCHANGED <<routes, listeners, middlewares, resources, robj, mobj, lobj, nops, snap, serveVars, lifeVars, parsed, ioVars>>

CallMiddleware(i) ==
    /\ i \in 1..Len(middlewares)
    /\ lastOp' = [Op("call_middleware", middlewares[i].callback.fn, "none")
                    EXCEPT !.recv = middlewares[i].callback.depth]
    /\ UNCHANGED <<routes, listeners, middlewares, resources, robj, mobj, lobj, nops, snap, serveVars, lifeVars, parsed, ioVars>>

\* dispatch(name) on the listeners registered so far, the application being
\* started: the callables it creates tasks for
Dispatch(name) ==
    /\ LET tasks == dispatch(<<>>, listeners, TRUE, name, <<>>)
       IN lastOp' = [Op("dispatch", name, "none")
                       EXCEPT !.launched = [i \in 1..Len(tasks) |-> tasks[i].cb]]
    /\ UNCHANGED <<routes, listeners, middlewares, resources, robj, mobj, lobj, nops, snap, serveVars, lifeVars, parsed, ioVars>>

NextReg ==
    \/ \E r \in DirectRoutes : AddRoute(r)
    \/ \E r \in RouteIds : RemoveRoute(r)
    \/ \E fn \in UserListeners, e \in Events : AddEventListener(fn, e)
    \/ \E e \in DOMAIN listeners : \E l \in Range(listeners[e]) : RemoveEventListener(l)
    \/ \E fn \in UserMiddlewares : RegisterMiddleware(fn)
    \/ \E mw \in Range(middlewares) : RemoveMiddleware(mw)
    \/ \E obj \in Injectables : Inject(obj)
    \/ \E obj \in Injectables : Eject(obj)
    \/ \E obj \in Injectables : AddResource(obj)
    \/ \E obj \in Injectables : RemoveResource(obj)
    \/ \E p \in ReqPaths, m \in Methods : Resolve(p, m)
    \/ \E r \in RouteIds : CallRoute(r)
    \/ \E e \in Events : \E i \in 1..MaxOps : CallListener(e, i)
    \/ \E i \in 1..MaxOps : CallMiddleware(i)
    \/ \E e \in {"error", "startup", "shutdown"} : Dispatch(e)

SpecReg == InitReg /\ [][NextReg]_vars

(***************************************************************************)
(* Properties of resolution and registration (SpecReg)                     *)
(***************************************************************************)
RegView == View(Reg)

\* the routes, by position, that match a path, and those that also have the method
PathHits(path) == {i \in 1..Len(routes) : FullMatch(RoutePath(routes[i]), path)}
Hits(path, method) == {i \in PathHits(path) : RouteMethod(routes[i]) = method}
First(S) == CHOOSE i \in S : \A j \in S : i <= j

\* C1: resolution returns (named captures, route) for the first route, in
\* registration order, whose pattern fully matches the path and whose method is
\* the request's; a route matching the path with another method does not stop
\* the search.
C1_FirstRouteWithPathAndMethod ==
    lastOp.op = "resolve" =>
        LET path   == lastOp.arg[1]
            method == lastOp.arg[2]
        IN Hits(path, method) # {} =>
              /\ lastOp.ret.exc = "none"
              /\ lastOp.ret.route = routes[First(Hits(path, method))]
              /\ lastOp.ret.args = GroupDict(RoutePath(lastOp.ret.route), path)

\* C2: when some route matches the path and none of those has the request's
\* method, resolution raises MethodNotAllowed carrying exactly the methods of
\* the routes that match the path.
C2_MethodNotAllowedCarriesAllowed ==
    lastOp.op = "resolve" =>
        LET path   == lastOp.arg[1]
            method == lastOp.arg[2]
        IN (PathHits(path) # {} /\ Hits(path, method) = {}) =>
              /\ lastOp.ret.exc = "MethodNotAllowed"
              /\ lastOp.ret.allowed = {RouteMethod(routes[i]) : i \in PathHits(path)}

\* C3: add_route of a route whose (path, method) is already registered raises
\* RegistrationError and leaves the router as it was; the router never holds
\* two routes under one (path, method).
C3_DuplicateRouteRejected ==
    /\ [](\A i, j \in 1..Len(routes) : RouteKey(routes[i]) = RouteKey(routes[j]) => i = j)
    /\ [][(nops' = nops + 1 /\ lastOp'.op = "add_route"
             /\ RouterContains(routes, lastOp'.arg))
            => (lastOp'.err = "RegistrationError" /\ routes' = routes)]_vars

\* a second route for GET /hello was refused while the first one is registered
C3_Witness ==
    /\ lastOp.op = "add_route"
    /\ lastOp.arg = 6
    /\ lastOp.err = "RegistrationError"
    /\ routes = <<2, 1>>

\* C8: eject(obj) right after a successful inject(obj) completes without error
\* and leaves the routes, the listener lists and the global middlewares as they
\* were before inject(obj).
C8_EjectRestoresRegistration ==
    (lastOp.op = "eject" /\ snap.obj = lastOp.arg) =>
        (lastOp.err = "none" /\ RegView = snap.view)

\* C9: a callback registered by injection is called with its owning object
\* passed exactly once before the framework's arguments.
C9_ReceiverPassedOnce ==
    /\ (lastOp.op = "call_route" /\ lastOp.arg \notin DirectRoutes) => lastOp.recv = 1
    /\ (lastOp.op = "call_listener" /\ lastOp.arg \in ListenerIds) => lastOp.recv = 1
    /\ (lastOp.op = "call_middleware" /\ lastOp.arg \in MwIds) => lastOp.recv = 1

\* C10: an inject(obj) that raises registers none of obj's entries: the
\* registration state is the one before the call.
C10_FailedInjectChangesNothing ==
    [][(nops' = nops + 1 /\ lastOp'.op = "inject" /\ lastOp'.err # "none")
         => RegView' = RegView]_vars

\* the callables registered for the event on_<name>
Registered(name) ==
    IF EventKey(name) \in DOMAIN listeners
    THEN [i \in 1..Len(listeners[EventKey(name)]) |-> listeners[EventKey(name)][i].callback]
    ELSE <<>>

\* C21: dispatch(name) launches the application's own method on_<name> when no
\* listener is registered for the event at that time, also when listeners were
\* registered and removed again; otherwise it launches the registered
\* listeners, one task each, and not the application's method.
C21_FallbackWheneverNoListener ==
    lastOp.op = "dispatch" =>
        IF Registered(lastOp.arg) = <<>>
        THEN lastOp.launched = IF EventKey(lastOp.arg) \in OwnMethods
                               THEN <<Callback(EventKey(lastOp.arg), 1)>> ELSE <<>>
        ELSE lastOp.launched = Registered(lastOp.arg)

(***************************************************************************)
(* Argument conversion                                                     *)
(***************************************************************************)
\* the parameters the route's callback declares besides the request
RouteParams(r) == CASE r = 3 -> {"id"} [] r = 5 -> {"room"} [] OTHER -> {}

\* int(text): the number a decimal literal denotes; anything else is a ValueError
IntLiterals == {"42", "7"}
IntOf(text) == CASE text = "42" -> 42 [] text = "7" -> 7

StrValue(text) == [type |-> "str", text |-> text, num |-> 0]
IntValue(n)    == [type |-> "int", text |-> "", num |-> n]

\* _convert(route.callback, args, request); no handler here declares a Model
convert(r, args) ==
    LET given == {a \in args : a[1] \in RouteParams(r)}
        bad   == {a \in given : RouteAnnotation(r, a[1]) = "int" /\ a[2] \notin IntLiterals}
    IN IF bad # {}
       THEN [exc |-> "BadConversion", kwargs |-> {}]
       ELSE [exc |-> "none",
             kwargs |-> { <<a[1], IF RouteAnnotation(r, a[1]) = "int"
                                  THEN IntValue(IntOf(a[2])) ELSE StrValue(a[2])>> : a \in given }]

(***************************************************************************)
(* Request                                                                 *)
(***************************************************************************)
\* Request.close(): closes the writer unless is_closed(); returns the request's
\* _closed flag and the writer's state
request_close(req_closed, w) ==
    [closed |-> req_closed, writer |-> IF ~req_closed THEN "closed" ELSE w]

\* Request.is_closed()
is_closed(c) == c.closed

\* what a handler returns: a string, or a StreamResponse with its chunks
Returns == {[kind |-> "str", chunks |-> <<>>], [kind |-> "stream", chunks |-> <<"c1", "c2">>]}

(***************************************************************************)
(* The request pipeline: _request_handler and what it calls                *)
(***************************************************************************)
PartialRoute(path, method) == [partial |-> TRUE, route |-> 0, path |-> path, method |-> method]
FullRoute(r) == [partial |-> FALSE, route |-> r, path |-> <<>>, method |-> RouteMethod(r)]

\* a mutation of the middleware list: the global middlewares first
run_list_globals_first(own, mobjs, globals) ==
    globals \o [i \in 1..Len(own) |-> Middleware(Callback(own[i], mobjs[own[i]]))]

\* _run_middlewares: route.middlewares.copy() extended by _middlewares
run_list(own, mobjs, globals) ==
    [i \in 1..Len(own) |-> Middleware(Callback(own[i], mobjs[own[i]]))] \o globals

\* a mutation of _run_middlewares without the copy: extend() works on the
\* route's own list
route_middlewares_extended(own, globals) ==
    own \o [i \in 1..Len(globals) |-> globals[i].callback.fn]

\* what _run_middlewares leaves in route.middlewares: extend() works on the
\* copy, the route's own list is as it was
route_middlewares(own, globals) == own

\* a mutation of gather: ready as soon as one middleware is done
gather_first_completed(c) ==
    IF \E i \in 1..Len(c.mwst) : c.mwst[i] = "raised" THEN "raised"
    ELSE IF c.mwst = <<>> \/ \E i \in 1..Len(c.mwst) : c.mwst[i] = "done" THEN "done"
    ELSE "pending"

\* await asyncio.gather(*middlewares): raises once one of them raised, returns
\* when all of them are done
gather(c) ==
    IF \E i \in 1..Len(c.mwst) : c.mwst[i] = "raised" THEN "raised"
    ELSE IF \A i \in 1..Len(c.mwst) : c.mwst[i] = "done" THEN "done"
    ELSE "pending"

\* a mutation of the except block: the error event is dispatched and the
\* pipeline goes on to request.send
ErrorReturn_falls_through(c, exc) ==
    LET arg == IF c.route = 0 THEN PartialRoute(c.path, c.method) ELSE FullRoute(c.route)
        ev  == [route |-> arg, req |-> c.id, exc |-> exc]
    IN /\ cur' = [c EXCEPT !.errors = Append(@, ev), !.pc = "send"]
       /\ active' = dispatch(active, listeners, loop, "error", ev)

\* the except block of _request_handler: dispatch the error event and return
ErrorReturn(c, exc) ==
    LET arg == IF c.route = 0 THEN PartialRoute(c.path, c.method) ELSE FullRoute(c.route)
        ev  == [route |-> arg, req |-> c.id, exc |-> exc]
    IN /\ cur' = [c EXCEPT !.errors = Append(@, ev), !.pc = "done", !.outcome = "error"]
       /\ active' = dispatch(active, listeners, loop, "error", ev)

(***************************************************************************)
(* SpecServe: a configured, started application and one connection.        *)
(* The connection loop reads a request, awaits _request_handler and reads  *)
(* the next one.                                                           *)
(***************************************************************************)
\* the registration state of a new application
Fresh ==
    [routes |-> <<>>, listeners |-> <<>>, middlewares |-> <<>>, resources |-> {},
     robj |-> [r \in RouteIds |-> [cb |-> 0, after |-> 0, middlewares |-> RouteMiddlewares(r)]],
     mobj |-> [m \in MwIds |-> 0], lobj |-> [l \in ListenerIds |-> 0]]

\* the programs served: what their registration calls leave
\*   A: GET /hello, POST /hello, the websocket route and one global middleware
\*   B: A with a listener for the error event that answers the request
\*   C: the resource res added, then POST /hello and the websocket route
ConfigA == middleware(add_route(add_route(add_route(Fresh, 1).st, 2).st, 5).st,
                      Callback("u_mw", 0)).st
ConfigB == add_event_listener(ConfigA, Callback("u_err", 0), "on_error").st
ConfigC == add_route(add_route(add_resource(Fresh, "res").st, 2).st, 5).st

Configs == {ConfigA, ConfigB, ConfigC}

ReqInputs ==
    {<<<<"hello">>, "GET">>, <<<<"hello">>, "POST">>, <<<<"hello">>, "DELETE">>,
     <<<<"users", "42">>, "GET">>, <<<<"users", "abc">>, "GET">>,
     <<<<"ws", "lobby">>, "GET">>, <<<<"nope">>, "GET">>}

InitServe ==
    /\ \E cfg \in Configs :
          /\ routes = cfg.routes
          /\ listeners = cfg.listeners
          /\ middlewares = cfg.middlewares
          /\ resources = cfg.resources
          /\ robj = cfg.robj
          /\ mobj = cfg.mobj
          /\ lobj = cfg.lobj
    /\ nops = 0
    /\ lastOp = Op("init", 0, "none")
    /\ snap = [obj |-> "none", view |-> [routes |-> {}, listeners |-> <<>>, middlewares |-> <<>>]]
    /\ loop = TRUE
    /\ active = <<>>
    /\ wstasks = <<>>
    /\ conn = "open"
    /\ writer = "open"
    /\ wire = <<>>
    /\ nreq = 0
    /\ cur = NoRequest
    /\ orphans = {}
    /\ workers = [w \in WorkerIds |-> "serving"]
    /\ worker_tasks = [w \in 1..Cardinality(WorkerIds) |-> [worker |-> w, state |-> "running"]]
    /\ closed = FALSE
    /\ calls = [NoCalls EXCEPT !.starts = 1]
    /\ parsed = NoParse
    /\ shake = NoShake
    /\ stream = NoStream
    /\ client = NoClient
    /\ dual = NoDual
    /\ evloop = NoLoop

\* the connection loop: the previous request's handler has returned and the
\* next request is read and parsed
ParseRequest(path, method) ==
    /\ conn = "open"
    /\ writer = "open"
    /\ cur.pc \in {"none", "done"}
    /\ nreq < MaxReq
    /\ nreq' = nreq + 1
    /\ cur' = [NoRequest EXCEPT !.id = nreq + 1, !.path = path, !.method = method,
                                !.pc = "resolve", !.outcome = "running"]
    /\ orphans' = orphans \cup
          { [req |-> cur.id, mw |-> cur.mws[i]] :
              i \in {j \in 1..Len(cur.mws) : cur.mwst[j] \in {"pending", "running"}} }
    /\ UNCHANGED <<regVars, lifeVars, parsed, ioVars, loop, active, wstasks, conn, writer, wire>>

\* kwargs, route = self._resolve_all(request), then the call of _run_middlewares
\* up to its await
ResolveAll ==
    /\ cur.pc = "resolve"
    /\ LET res == resolve(routes, cur.path, cur.method)
           cv  == convert(res.route, res.args)
       IN IF res.exc # "none"
          THEN ErrorReturn(cur, res.exc)
          ELSE IF cv.exc # "none"
          THEN ErrorReturn([cur EXCEPT !.reqroute = res.route], cv.exc)
          ELSE LET list == run_list(robj[res.route].middlewares, mobj, middlewares)
               IN /\ cur' = [cur EXCEPT !.reqroute = res.route, !.route = res.route,
                                        !.kwargs = cv.kwargs, !.mws = list,
                                        !.mwst = [i \in 1..Len(list) |-> "pending"],
                                        !.runs = [i \in 1..Len(list) |-> 0],
                                        !.pc = "gather"]
                  /\ UNCHANGED active
    /\ LET res == resolve(routes, cur.path, cur.method)
       IN robj' = IF res.exc # "none" \/ convert(res.route, res.args).exc # "none"
                  THEN robj
                  ELSE [robj EXCEPT ![res.route].middlewares =
                                      route_middlewares(@, middlewares)]
    /\ UNCHANGED <<routes, listeners, middlewares, resources, mobj, lobj, nops, lastOp, snap>>
    /\ UNCHANGED <<lifeVars, parsed, ioVars, loop, wstasks, conn, writer, wire, nreq, orphans>>

\* the event loop starts the tasks of gather in the order they were created
StartMiddleware(i) ==
    /\ i \in 1..Len(cur.mws)
    /\ cur.mwst[i] = "pending"
    /\ \A j \in 1..(i - 1) : cur.mwst[j] # "pending"
    /\ cur' = [cur EXCEPT !.mwst[i] = "running", !.runs[i] = @ + 1,
                          !.started = Append(@, cur.mws[i])]
    /\ UNCHANGED <<regVars, lifeVars, parsed, ioVars, loop, active, wstasks, conn, writer, wire, nreq, orphans>>

\* a middleware ends: it returns, raises, or calls request.close() and returns
FinishMiddleware(i, how) ==
    /\ i \in 1..Len(cur.mws)
    /\ cur.mwst[i] = "running"
    /\ LET cl == request_close(cur.closed, writer)
       IN IF how = "close"
          THEN /\ cur' = [cur EXCEPT !.mwst[i] = "done", !.closed = cl.closed,
                                     !.closeCalled = TRUE]
               /\ writer' = cl.writer
          ELSE /\ cur' = [cur EXCEPT !.mwst[i] = IF how = "raise" THEN "raised" ELSE "done"]
               /\ UNCHANGED writer
    /\ UNCHANGED <<regVars, lifeVars, parsed, ioVars, loop, active, wstasks, conn, wire, nreq, orphans>>

\* gather returned: the is_closed() test, the websocket hand-off, or the call
\* of the route's callback
GatherReturn ==
    /\ cur.pc = "gather"
    /\ gather(cur) = "done"
    /\ IF is_closed(cur)
       THEN /\ cur' = [cur EXCEPT !.pc = "done", !.outcome = "aborted"]
            /\ UNCHANGED <<wstasks, conn>>
       ELSE IF RouteIsWebsocket(cur.route)
       THEN /\ cur' = [cur EXCEPT !.pc = "done", !.outcome = "websocket"]
            /\ wstasks' = IF loop
                          THEN ensure_websockets(Append(wstasks,
                                   [req |-> cur.id, route |-> cur.route, kwargs |-> {}, closecode |-> 0,
                                    state |-> "pending"]))
                          ELSE wstasks
            /\ conn' = "websocket"
       ELSE /\ cur' = [cur EXCEPT !.pc = "handler", !.handler = "running",
                                  !.recv = robj[cur.route].cb]
            /\ UNCHANGED <<wstasks, conn>>
    /\ UNCHANGED <<regVars, lifeVars, parsed, ioVars, loop, active, writer, wire, nreq, orphans>>

\* gather raised the exception of a middleware
GatherRaise ==
    /\ cur.pc = "gather"
    /\ gather(cur) = "raised"
    /\ ErrorReturn(cur, "MiddlewareError")
    /\ UNCHANGED <<regVars, lifeVars, parsed, ioVars, loop, wstasks, conn, writer, wire, nreq, orphans>>

\* the route's callback raises
HandlerRaise ==
    /\ cur.pc = "handler"
    /\ ErrorReturn([cur EXCEPT !.handler = "raised"], "HandlerError")
    /\ UNCHANGED <<regVars, lifeVars, parsed, ioVars, loop, wstasks, conn, writer, wire, nreq, orphans>>

\* the route's callback returns ret; request.send(resp) converts and prepares it
HandlerReturn(ret) ==
    /\ cur.pc = "handler"
    /\ cur' = [cur EXCEPT !.handler = "returned", !.ret = ret.kind,
                          !.chunks = ret.chunks, !.resp = ret.kind, !.pc = "send"]
    /\ UNCHANGED <<regVars, lifeVars, parsed, ioVars, loop, active, wstasks, conn, writer, wire, nreq, orphans>>

\* Request.send that writes the chunks of the stream before the preamble
send_writes_chunks_first(chunks) == chunks \o <<"preamble">>

\* Request.send: the data of its writes, in order: the prepared response, then
\* every chunk the StreamResponse yields; each write is awaited with drain=True
send_writes(chunks) == <<"preamble">> \o chunks

\* one await writer.write(.., drain=True) of request.send: the prepared data,
\* then the chunks of a StreamResponse.  A write to a closed writer is a transport
\* error, which ends the connection.
SendWrite ==
    /\ cur.pc = "send"
    /\ LET k == Len(SelectSeq(wire, LAMBDA w : w.req = cur.id /\ w.kind # "error"))
           data == send_writes(cur.chunks)[k + 1]
           last == (k + 1 = Len(send_writes(cur.chunks)))
       IN IF writer = "closed"
          THEN /\ cur' = [cur EXCEPT !.pc = "done", !.outcome = "escaped"]
               /\ conn' = "closed"
               /\ UNCHANGED wire
          ELSE /\ wire' = Append(wire, [req |-> cur.id, seen |-> nreq,
                                        kind |-> IF data = "preamble" THEN "head" ELSE "chunk",
                                        data |-> data, status |-> 200, last |-> last])
               /\ cur' = IF ~last THEN cur
                         ELSE IF RouteHasAfterRequest(cur.route)
                         THEN [cur EXCEPT !.resp = "None", !.pc = "after"]
                         ELSE [cur EXCEPT !.resp = "None", !.pc = "done",
                                          !.outcome = "returned"]
               /\ UNCHANGED conn
    /\ UNCHANGED <<regVars, lifeVars, parsed, ioVars, loop, active, wstasks, writer, nreq, orphans>>

\* route._after_request(request, resp, **kwargs)
AfterRequest ==
    /\ cur.pc = "after"
    /\ cur' = [cur EXCEPT !.after = cur.resp, !.pc = "done", !.outcome = "returned"]
    /\ UNCHANGED <<regVars, lifeVars, parsed, ioVars, loop, active, wstasks, conn, writer, wire, nreq, orphans>>

\* a listener task runs.  The listener u_err answers the request of an error
\* event with a 500 response; the others only log.
RunListener(i) ==
    /\ i \in 1..Len(active)
    /\ active[i].state = "pending"
    /\ active' = [active EXCEPT ![i].state = "done"]
    /\ wire' = IF active[i].cb.fn = "u_err" /\ active[i].event = "on_error"
                  /\ writer = "open"
               THEN Append(wire, [req |-> active[i].args.req, seen |-> nreq,
                                  kind |-> "error", data |-> "preamble", status |-> 500,
                                  last |-> TRUE])
               ELSE wire
    /\ UNCHANGED <<regVars, lifeVars, parsed, ioVars, loop, wstasks, conn, writer, nreq, cur, orphans>>

\* a websocket handler task runs to its end or raises; nothing awaits the task
\* and nothing in it closes the websocket, whose close code stays 0
RunWebsocket(i, how) ==
    /\ i \in 1..Len(wstasks)
    /\ wstasks[i].state = "pending"
    /\ wstasks' = [wstasks EXCEPT ![i].state = IF how = "raise" THEN "raised" ELSE "done"]
    /\ UNCHANGED <<regVars, lifeVars, parsed, ioVars, loop, active, conn, writer, wire, nreq, cur, orphans>>

\* a middleware of an earlier request, left running when gather raised, ends
RunOrphan(o, closes) ==
    /\ o \in orphans
    /\ orphans' = orphans \ {o}
    /\ writer' = IF closes THEN request_close(FALSE, writer).writer ELSE writer
    /\ UNCHANGED <<regVars, lifeVars, parsed, ioVars, loop, active, wstasks, conn, wire, nreq, cur>>

\* positions in the middleware list of a request
MwIndex == 1..Cardinality(MwIds \cup UserMiddlewares)

NextServe ==
    \/ \E in \in ReqInputs : ParseRequest(in[1], in[2])
    \/ ResolveAll
    \/ \E i \in MwIndex : StartMiddleware(i)
    \/ \E i \in MwIndex : \E how \in {"ok", "raise", "close"} :
          FinishMiddleware(i, how)
    \/ GatherReturn
    \/ GatherRaise
    \/ HandlerRaise
    \/ \E ret \in Returns : HandlerReturn(ret)
    \/ SendWrite
    \/ AfterRequest
    \/ \E i \in 1..(MaxReq * 2) : RunListener(i)
    \/ \E i \in 1..MaxReq : \E how \in {"ok", "raise"} : RunWebsocket(i, how)
    \/ \E o \in orphans : \E closes \in BOOLEAN : RunOrphan(o, closes)

SpecServe == InitServe /\ [][NextServe]_vars

(***************************************************************************)
(* Properties of the request pipeline (SpecServe)                          *)
(***************************************************************************)
\* C4: the handler of a request does not start before every middleware of the
\* request has completed; each of them runs exactly once, and none runs after
\* the handler returned.
C4_MiddlewaresCompleteBeforeHandler ==
    /\ \A i \in 1..Len(cur.mws) : cur.runs[i] <= 1
    /\ cur.handler # "none" =>
          \A i \in 1..Len(cur.mws) : cur.mwst[i] = "done" /\ cur.runs[i] = 1

\* the handler of GET /hello returned after two route middlewares and a global one
C4_Witness ==
    /\ cur.handler = "returned"
    /\ Len(cur.mws) = Len(RouteMiddlewares(1)) + 1
    /\ \A i \in 1..Len(cur.mws) : cur.mwst[i] = "done"

\* C5: once a middleware of a request has called request.close(), the route's
\* handler is not invoked and the pipeline sends no response for the request.
C5_CloseAbortsPipeline ==
    cur.closeCalled =>
        /\ cur.handler = "none"
        /\ \A i \in 1..Len(wire) : wire[i].req = cur.id => wire[i].kind = "error"

C7_ResponsesInArrivalOrder ==
    /\ \A i, j \in 1..Len(wire) : i < j => wire[i].req <= wire[j].req
    /\ \A i \in 1..Len(wire) : wire[i].seen = wire[i].req

\* the writes the pipeline made for the request being handled
PipelineWrites == SelectSeq(wire, LAMBDA w : w.req = cur.id /\ w.kind # "error")

\* something raised while the request was handled and _request_handler is over
Failed ==
    /\ cur.pc = "done"
    /\ \/ cur.reqroute = 0
       \/ cur.route = 0
       \/ \E i \in 1..Len(cur.mwst) : cur.mwst[i] = "raised"
       \/ cur.handler = "raised"

\* C11: when resolution, conversion, a middleware or the handler raised, exactly
\* one error event was dispatched for the request, with the route or partial
\* route, the request and the exception; the handler is not invoked after that,
\* the pipeline writes no response and the after-request callback does not run.
C11_OneErrorEventAndNothingElse ==
    /\ Len(cur.errors) <= 1
    /\ Failed => Len(cur.errors) = 1
    /\ cur.errors # <<>> =>
          /\ cur.pc = "done"
          /\ cur.errors[1].req = cur.id
          /\ cur.handler \in {"none", "raised"}
          /\ cur.handler = "raised" <=> cur.errors[1].exc = "HandlerError"
          /\ PipelineWrites = <<>>
          /\ cur.after = "none"
          /\ \E i \in 1..Len(active) : active[i].args = cur.errors[1]

\* the handler raised after all middlewares were done, and one error event is out
C11_Witness ==
    /\ cur.handler = "raised"
    /\ Len(cur.errors) = 1
    /\ cur.errors[1].exc = "HandlerError"
    /\ cur.mws # <<>>

\* C12: the route of an error event is the resolved route whenever resolution
\* succeeded, and a partial route (path, method) only when resolution failed.
C12_ErrorCarriesResolvedRoute ==
    \A i \in 1..Len(cur.errors) :
        IF cur.reqroute = 0
        THEN cur.errors[i].route = PartialRoute(cur.path, cur.method)
        ELSE cur.errors[i].route = FullRoute(cur.reqroute)

\* C13: when a handler raised and the application's own on_error was the
\* listener, that listener has written a 500 response for the request by the
\* time it is done.
C13_DefaultListenerWrites500 ==
    \A i \in 1..Len(active) :
        (/\ active[i].event = "on_error"
         /\ active[i].cb.fn = "on_error"
         /\ active[i].args.exc = "HandlerError"
         /\ active[i].state = "done")
        => \E j \in 1..Len(wire) : wire[j].req = active[i].args.req /\ wire[j].status = 500

\* C14: a request whose path parameter cannot be converted is answered with a
\* 400 response: once the listeners of its error event are done, a 400 was
\* written for it.
C14_BadConversionAnswered400 ==
    \A i \in 1..Len(active) :
        (/\ active[i].event = "on_error"
         /\ active[i].args.exc = "BadConversion"
         /\ active[i].state = "done")
        => \E j \in 1..Len(wire) : wire[j].req = active[i].args.req /\ wire[j].status = 400

\* C18: the after-request callback of a route runs only after the handler
\* returned and the response was written to its last byte, is handed the
\* response that was sent, and does not run after an abort or an error.
C18_AfterRequestGetsSentResponse ==
    cur.after # "none" =>
        /\ cur.handler = "returned"
        /\ \A i \in 1..Len(cur.mwst) : cur.mwst[i] = "done"
        /\ \E j \in 1..Len(wire) : wire[j].req = cur.id /\ wire[j].kind # "error" /\ wire[j].last
        /\ cur.errors = <<>>
        /\ cur.outcome = "returned"
        /\ cur.after = cur.ret

(***************************************************************************)
(* Response conversion: parse_response                                     *)
(***************************************************************************)
\* _validate_status_code(code): the exception it raises
validate_status_code(code) ==
    IF 300 <= code /\ code <= 399 THEN "ValueError"
    ELSE IF ~(200 <= code /\ code <= 599) THEN "ValueError"
    ELSE "none"

\* isinstance(response, Response): Response and its subclasses, among them
\* the HTTPException classes of errors.py such as Found (status_code 302)
IsResponse(t) == t \in {"Response", "FileResponse", "Found"}

\* what a handler returns: a value of some type, bare or in a tuple with a
\* status.  own is the status a Response object was built with; a status that
\* is not an int has int = FALSE.
PlainTypes == {"str", "bytes", "dict", "list", "File", "Model"}

ReturnValues ==
    {[type |-> t, own |-> 0] : t \in PlainTypes}
    \cup {[type |-> t, own |-> st] : t \in {"Response", "FileResponse"}, st \in {200, 302, 404}}
    \cup {[type |-> "Found", own |-> 302]}

StatusCodes == {99, 100, 199, 200, 201, 299, 300, 302, 399, 400, 404, 599, 600}

HandlerResults ==
    {[tuple |-> FALSE, type |-> v.type, own |-> v.own, int |-> TRUE, code |-> 0] :
        v \in ReturnValues}
    \cup {[tuple |-> TRUE, type |-> v.type, own |-> v.own, int |-> TRUE, code |-> n] :
        v \in ReturnValues, n \in StatusCodes}
    \cup {[tuple |-> TRUE, type |-> v.type, own |-> v.own, int |-> FALSE, code |-> 0] :
        v \in ReturnValues}

ParseRaised(e) == [exc |-> e, resp |-> "none", status |-> 0, identity |-> FALSE]
ParseReturned(t, st, same) == [exc |-> "none", resp |-> t, status |-> st, identity |-> same]

\* parse_response(response): the statements in the order of the code; a call
\* that reaches the end of the function returns None
parse_response(in) ==
    LET status == IF in.tuple THEN in.code ELSE 200
        \* the local response after the File branch
        local  == IF in.type = "File" THEN "FileResponse" ELSE in.type
    IN IF in.tuple /\ ~in.int THEN ParseRaised("TypeError")
       ELSE IF in.tuple /\ validate_status_code(in.code) # "none"
            THEN ParseRaised(validate_status_code(in.code))
       ELSE IF in.type # "File" /\ IsResponse(in.type)
            THEN ParseReturned(in.type, in.own, TRUE)
       ELSE IF local = "Model" THEN ParseReturned("JSONResponse", status, FALSE)
       ELSE IF local = "str" THEN ParseReturned("HTMLResponse", status, FALSE)
       ELSE IF local \in {"dict", "list"} THEN ParseReturned("JSONResponse", status, FALSE)
       ELSE ParseReturned("None", 0, FALSE)

(***************************************************************************)
(* SpecParse: parse_response applied to what handlers return               *)
(***************************************************************************)
InitParse ==
    /\ InitReg

ParseResponse(in) ==
    /\ LET res == parse_response(in)
       IN parsed' = [called |-> TRUE, tuple |-> in.tuple, type |-> in.type, own |-> in.own,
                     int |-> in.int, code |-> in.code, exc |-> res.exc, resp |-> res.resp,
                     status |-> res.status, identity |-> res.identity]
    /\ UNCHANGED <<regVars, serveVars, lifeVars, ioVars>>

NextParse == \E in \in HandlerResults : ParseResponse(in)

SpecParse == InitParse /\ [][NextParse]_vars

\* the response class the specification names for a type
ExpectedResponse(t) ==
    CASE t = "str" -> "HTMLResponse"
      [] t \in {"dict", "list", "Model"} -> "JSONResponse"
      [] t = "File" -> "FileResponse"

\* C15: for a return value of a supported type parse_response yields a
\* Response and never None: str gives an HTML response, dict, list and Model a
\* JSON response, File a file response, a Response itself; in a tuple the
\* status given is the status of the response built.
C15_SupportedTypesYieldResponse ==
    (parsed.called /\ parsed.exc = "none" /\ parsed.type # "bytes") =>
        /\ parsed.resp # "None"
        /\ IF IsResponse(parsed.type)
           THEN parsed.identity /\ parsed.resp = parsed.type
           ELSE /\ parsed.resp = ExpectedResponse(parsed.type)
                /\ parsed.status = IF parsed.tuple THEN parsed.code ELSE 200

\* C16: the status of a tuple is accepted exactly when it is an int in
\* 100..599 outside 300..399; another int is a ValueError, a non-int a
\* TypeError.
C16_StatusAcceptedIn100To599 ==
    (parsed.called /\ parsed.tuple) =>
        LET ok == /\ parsed.int
                  /\ 100 <= parsed.code /\ parsed.code <= 599
                  /\ ~(300 <= parsed.code /\ parsed.code <= 399)
        IN /\ ok <=> parsed.exc = "none"
           /\ ~parsed.int => parsed.exc = "TypeError"
           /\ (parsed.int /\ ~ok) => parsed.exc = "ValueError"

\* C17: a response that parse_response yields never has a status in 300..399.
C17_NoRedirectStatusFromHandler ==
    (parsed.called /\ parsed.exc = "none" /\ parsed.resp # "None") =>
        ~(300 <= parsed.status /\ parsed.status <= 399)

(***************************************************************************)
(* Lifecycle: start and close                                              *)
(***************************************************************************)
\* self.workers: the workers in the order of their ids
WorkerList == [i \in 1..Cardinality(WorkerIds) |-> i]

\* the arguments of an event without arguments
NoArgs == [route |-> PartialRoute(<<>>, ""), req |-> 0, exc |-> "none"]

\* the loop of start(): one task per worker, appended to _worker_tasks
start_tasks(tasks) ==
    tasks \o [i \in 1..Len(WorkerList) |-> [worker |-> WorkerList[i], state |-> "pending"]]

\* task.cancel(): a task that has not ended is asked to end
cancel(t) == IF t.state \in {"pending", "running"} THEN [t EXCEPT !.state = "cancelling"] ELSE t

\* a mutation of the loop of close(): over after the first worker
CloseStopsAwaited_first_only(c) == c.k > 1

\* the loop "for worker in self.workers: await worker.stop()" of a close()
\* call is over: the call awaits the worker at position c.k next
CloseStopsAwaited(c) == c.k > Len(WorkerList)

(***************************************************************************)
(* SpecLife: an application that is started and closed.  start() is not    *)
(* called while a close() is suspended, and close() is called on a started *)
(* application, as run() and the async context manager do.                 *)
(***************************************************************************)
\* an application with listeners for the startup and shutdown events
ConfigL == add_event_listener(add_event_listener(Fresh, Callback("u_err", 0), "on_startup").st,
                              Callback("u_err", 0), "on_shutdown").st

InitLife ==
    /\ Idle
    /\ Constructed
    /\ parsed = NoParse
    /\ shake = NoShake
    /\ stream = NoStream
    /\ client = NoClient
    /\ dual = NoDual
    /\ evloop = NoLoop
    /\ \E cfg \in {Fresh, ConfigL} :
          /\ routes = cfg.routes
          /\ listeners = cfg.listeners
          /\ middlewares = cfg.middlewares
          /\ resources = cfg.resources
          /\ robj = cfg.robj
          /\ mobj = cfg.mobj
          /\ lobj = cfg.lobj
    /\ nops = 0
    /\ lastOp = Op("init", 0, "none")
    /\ snap = [obj |-> "none", view |-> [routes |-> {}, listeners |-> <<>>, middlewares |-> <<>>]]

NumCalls == calls.starts + Len(calls.close)

\* start(): it has no await, so it runs in one step
Start ==
    /\ NumCalls < MaxCalls
    /\ \A i \in 1..Len(calls.close) : calls.close[i].pc = "done"
    /\ loop' = TRUE
    /\ worker_tasks' = start_tasks(worker_tasks)
    /\ active' = dispatch(active, listeners, TRUE, "startup", NoArgs)
    /\ calls' = [calls EXCEPT !.starts = @ + 1]
    /\ UNCHANGED <<regVars, parsed, ioVars, workers, closed, wstasks, conn, writer, wire, nreq, cur, orphans>>

\* the event loop runs the task of a worker: worker.run(loop) serves
RunWorker(i) ==
    /\ i \in 1..Len(worker_tasks)
    /\ worker_tasks[i].state = "pending"
    /\ worker_tasks' = [worker_tasks EXCEPT ![i].state = "running"]
    /\ workers' = [workers EXCEPT ![worker_tasks[i].worker] = "serving"]
    /\ UNCHANGED <<regVars, parsed, ioVars, serveVars, closed, calls>>

\* a task that was cancelled ends
EndTask(i) ==
    /\ i \in 1..Len(worker_tasks)
    /\ worker_tasks[i].state = "cancelling"
    /\ worker_tasks' = [worker_tasks EXCEPT ![i].state = "cancelled"]
    /\ UNCHANGED <<regVars, parsed, ioVars, serveVars, workers, closed, calls>>

\* close() up to its first await: every task of _worker_tasks is cancelled
Close ==
    /\ NumCalls < MaxCalls
    /\ loop
    /\ worker_tasks' = [i \in 1..Len(worker_tasks) |-> cancel(worker_tasks[i])]
    /\ calls' = [calls EXCEPT !.close = Append(@, [pc |-> "stop", k |-> 1, events |-> 0])]
    /\ UNCHANGED <<regVars, parsed, ioVars, serveVars, workers, closed>>

\* one await worker.stop() of a close() call returns
CloseStop(c) ==
    /\ c \in 1..Len(calls.close)
    /\ calls.close[c].pc = "stop"
    /\ ~CloseStopsAwaited(calls.close[c])
    /\ workers' = [workers EXCEPT ![WorkerList[calls.close[c].k]] = "stopped"]
    /\ calls' = [calls EXCEPT !.close[c].k = @ + 1]
    /\ UNCHANGED <<regVars, parsed, ioVars, serveVars, worker_tasks, closed>>

\* the rest of close(): _closed = True and dispatch('shutdown')
CloseFinish(c) ==
    /\ c \in 1..Len(calls.close)
    /\ calls.close[c].pc = "stop"
    /\ CloseStopsAwaited(calls.close[c])
    /\ closed' = TRUE
    /\ active' = dispatch(active, listeners, loop, "shutdown", NoArgs)
    /\ calls' = [calls EXCEPT !.close[c].pc = "done", !.close[c].events = @ + 1]
    /\ UNCHANGED <<regVars, parsed, ioVars, workers, worker_tasks, loop, wstasks, conn, writer, wire,
                   nreq, cur, orphans>>

\* a listener task runs and its coroutine raises: the exception stays in the task
FailListener(i) ==
    /\ i \in 1..Len(active)
    /\ active[i].state = "pending"
    /\ active' = [active EXCEPT ![i].state = "raised"]
    /\ UNCHANGED <<regVars, lifeVars, parsed, ioVars, loop, wstasks, conn, writer, wire, nreq,
                   cur, orphans>>

NextLife ==
    \/ Start
    \/ \E i \in 1..(MaxCalls * Cardinality(WorkerIds)) : RunWorker(i)
    \/ \E i \in 1..(MaxCalls * Cardinality(WorkerIds)) : EndTask(i)
    \/ Close
    \/ \E c \in 1..MaxCalls : CloseStop(c)
    \/ \E c \in 1..MaxCalls : CloseFinish(c)
    \/ \E i \in 1..MaxCalls : RunListener(i)

SpecLife == InitLife /\ [][NextLife]_vars

\* the listeners registered for the shutdown event
ShutdownListeners ==
    IF "on_shutdown" \in DOMAIN listeners THEN Len(listeners["on_shutdown"]) ELSE 0

\* C19: a close() call sets _closed only after it cancelled every worker task
\* and every worker has stopped; it dispatches the shutdown event after that,
\* once; and is_closed() is false until a close() call has reached that point.
C19_ClosedAfterWorkersStopped ==
    /\ [](closed => \E c \in 1..Len(calls.close) : calls.close[c].pc = "done")
    /\ [](\A c \in 1..Len(calls.close) :
            calls.close[c].events = IF calls.close[c].pc = "done" THEN 1 ELSE 0)
    /\ [][\A c \in 1..Len(calls.close) :
            (calls.close[c].pc # "done" /\ calls'.close[c].pc = "done") =>
                /\ \A w \in WorkerIds : workers[w] = "stopped"
                /\ \A t \in 1..Len(worker_tasks) :
                      worker_tasks[t].state \in {"cancelling", "cancelled"}
                /\ closed'
                /\ Len(active') >= ShutdownListeners
                /\ \A j \in 1..ShutdownListeners :
                      /\ active'[Len(active') - ShutdownListeners + j].event = "on_shutdown"
                      /\ active'[Len(active') - ShutdownListeners + j].state = "pending"]_vars

\* a close() of a started application with a shutdown listener is over
C19_Witness ==
    /\ closed
    /\ \E c \in 1..Len(calls.close) : calls.close[c].pc = "done"
    /\ \E i \in 1..Len(active) : active[i].event = "on_shutdown"
    /\ \E t \in 1..Len(worker_tasks) : worker_tasks[t].state = "cancelled"

\* C20: start() on a started application is rejected and adds no worker task:
\* no worker ever has more than one task that has not ended.
C20_OneTaskPerWorker ==
    \A w \in WorkerIds :
        Cardinality({t \in 1..Len(worker_tasks) :
                        /\ worker_tasks[t].worker = w
                        /\ worker_tasks[t].state \in {"pending", "running"}}) <= 1

(***************************************************************************)
(* SpecEvents: a started application with listeners, and events dispatched *)
(* to them.                                                                *)
(***************************************************************************)
\* an application with two listeners for the startup event and one for shutdown
ConfigE ==
    add_event_listener(
        add_event_listener(
            add_event_listener(Fresh, Callback("u_up1", 0), "on_startup").st,
            Callback("u_up2", 0), "on_startup").st,
        Callback("u_down", 0), "on_shutdown").st

InitEvents ==
    /\ \E cfg \in {ConfigE, ConfigB} :
          /\ routes = cfg.routes
          /\ listeners = cfg.listeners
          /\ middlewares = cfg.middlewares
          /\ resources = cfg.resources
          /\ robj = cfg.robj
          /\ mobj = cfg.mobj
          /\ lobj = cfg.lobj
    /\ nops = 0
    /\ lastOp = Op("init", 0, "none")
    /\ snap = [obj |-> "none", view |-> [routes |-> {}, listeners |-> <<>>, middlewares |-> <<>>]]
    /\ loop = TRUE
    /\ \E ends \in [1..2 -> {"done", "raised"}] :
          LET started == dispatch(<<>>, listeners, TRUE, "startup", NoArgs)
          IN active = [i \in 1..Len(started) |-> [started[i] EXCEPT !.state = ends[i]]]
    /\ wstasks = <<>>
    /\ conn = "closed"
    /\ writer = "closed"
    /\ wire = <<>>
    /\ nreq = 0
    /\ cur = NoRequest
    /\ orphans = {}
    /\ workers = [w \in WorkerIds |-> "serving"]
    /\ worker_tasks = [w \in 1..Cardinality(WorkerIds) |-> [worker |-> w, state |-> "running"]]
    /\ closed = FALSE
    /\ calls = [NoCalls EXCEPT !.starts = 1]
    /\ parsed = NoParse
    /\ shake = NoShake
    /\ stream = NoStream
    /\ client = NoClient
    /\ dual = NoDual
    /\ evloop = NoLoop

\* a call of dispatch(name): it returns in the step that creates the tasks
DispatchEvent(name) ==
    /\ calls.dispatches < MaxDispatch
    /\ active' = dispatch(active, listeners, loop, name, NoArgs)
    /\ calls' = [calls EXCEPT !.dispatches = @ + 1]
    /\ lastOp' = Op("dispatch", name, "none")
    /\ UNCHANGED <<routes, listeners, middlewares, resources, robj, mobj, lobj, nops, snap,
                   parsed, ioVars, workers, worker_tasks, closed, loop, wstasks, conn, writer,
                   wire, nreq, cur, orphans>>

NextEvents ==
    \/ \E e \in {"error", "startup", "shutdown"} : DispatchEvent(e)
    \/ \E i \in 1..(MaxDispatch * 2) : RunListener(i)
    \/ \E i \in 1..(MaxDispatch * 2) : FailListener(i)

SpecEvents == InitEvents /\ [][NextEvents]_vars

\* C22: dispatch creates a task for every registered listener and returns
\* while all of them are still to run; a listener that raises changes neither
\* the tasks of the other listeners nor the caller of dispatch.
C22_ListenersIndependent ==
    /\ [][calls'.dispatches # calls.dispatches =>
            LET cbs == Registered(lastOp'.arg)
                off == Len(active') - Len(cbs)
            IN /\ off >= 0
               /\ \A j \in 1..Len(cbs) :
                     /\ active'[off + j].cb = cbs[j]
                     /\ active'[off + j].event = EventKey(lastOp'.arg)
                     /\ active'[off + j].state = "pending"]_vars
    /\ [][\A i \in 1..Len(active) :
            (calls'.dispatches = calls.dispatches /\ active[i].state = "pending"
                /\ active'[i].state = "raised") =>
                /\ \A j \in 1..Len(active) : j # i => active'[j] = active[j]
                /\ calls' = calls
                /\ lastOp' = lastOp]_vars

\* of two listeners of the startup event the first raised and the second ran
C22_Witness ==
    \E i, j \in 1..Len(active) :
        /\ i < j
        /\ active[i].event = "on_startup" /\ active[i].state = "raised"
        /\ active[j].event = "on_startup" /\ active[j].state = "done"

\* C26: the handler of a WebSocket route is called with the request, the
\* websocket and the converted path parameters of the request.
C26_WebsocketHandlerGetsParams ==
    \A i \in 1..Len(wstasks) :
        wstasks[i].req = cur.id => wstasks[i].kwargs = cur.kwargs

\* C27: when the handler of a WebSocket route raised, the websocket was closed
\* with code 1011.
C27_WebsocketClosed1011OnError ==
    \A i \in 1..Len(wstasks) :
        wstasks[i].state = "raised" => wstasks[i].closecode = 1011

--------------------------------------------------------------------------------
\* The websocket upgrade of a request: is_websocket, parse_websocket_key and
\* handshake.

\* str.lower() on the Upgrade values the requests carry
lower(value) ==
    CASE value = "WebSocket" -> "websocket"
      [] value = "WEBSOCKET" -> "websocket"
      [] OTHER -> value

\* base64.b64decode on the Sec-WebSocket-Key values the requests carry: the
\* decoded bytes, or binascii.Error for a value whose padding is wrong
b64decode(value) ==
    CASE value = "dGhlIHNhbXBsZSBub25jZQ==" -> [err |-> FALSE, len |-> 16]
      [] value = "AQIDBAUGBwgJCgsMDQ4PEA==" -> [err |-> FALSE, len |-> 16]
      [] value = "c2hvcnQ=" -> [err |-> FALSE, len |-> 5]
      [] OTHER -> [err |-> TRUE, len |-> 0]

\* base64.b64encode(hashlib.sha1(text.encode()).digest()).decode() on the texts
\* the handshake can hash
b64_sha1(text) ==
    CASE text = "dGhlIHNhbXBsZSBub25jZQ==258EAFA5-E914-47DA-95CA-C5AB0DC85B11"
              -> "s3pPLMBiTxaQ9kYGzzhZRbK+xOo="
      [] text = "AQIDBAUGBwgJCgsMDQ4PEA==258EAFA5-E914-47DA-95CA-C5AB0DC85B11"
              -> "C/0nmHhBztSRGR1CwL6Tf4ZjwpY="
      [] text = "c2hvcnQ=258EAFA5-E914-47DA-95CA-C5AB0DC85B11"
              -> "5mxwMKXNI9akKyJbT9Ot03A9YWg="
      [] text = "abc258EAFA5-E914-47DA-95CA-C5AB0DC85B11"
              -> "zwKd5BnoWxQ6GxTxxSmBSHGHX9M="
      [] text = "dGhlIHNhbXBsZSBub25jZQ==" -> "hHLtf2V1k8aDQZfNjw3Ia1hCwt0="
      [] text = "AQIDBAUGBwgJCgsMDQ4PEA==" -> "AoUHQ/SIDx7UGoJfntmdDFhMbkw="
      [] text = "c2hvcnQ=" -> "SUOESIZELPQIrtzQBlyWQBvgFC0="
      [] OTHER -> "qZk+NkcGgWq6PiVxeFDCbJzQ2J0="

\* the RFC 6455 GUID the accept key is derived with
GUID == "258EAFA5-E914-47DA-95CA-C5AB0DC85B11"

\* the headers is_websocket requires
required == {"Host", "Upgrade", "Connection", "Sec-WebSocket-Version", "Sec-WebSocket-Key"}

\* what a call leaves: a returned value or a raised exception
Returned(value) == [ret |-> value, exc |-> "none"]
Raised(exc) == [ret |-> "none", exc |-> exc]

\* Request.is_websocket: the checks in the order the code makes them; the key is
\* decoded last, and only when every earlier check passed
is_websocket(req) ==
    IF req.method # "GET" THEN Returned("False")
    ELSE IF req.version # "HTTP/1.1" THEN Returned("False")
    ELSE IF ~(required \subseteq req.present) THEN Returned("False")
    ELSE IF lower(req.upgrade) # "websocket" THEN Returned("False")
    ELSE IF req.wsversion # "13" THEN Returned("False")
    ELSE IF b64decode(req.key).err THEN Raised("binascii.Error")
    ELSE IF b64decode(req.key).len # 16 THEN Returned("False")
    ELSE Returned("True")

\* parse_websocket_key that hashes the key without the GUID
parse_websocket_key_no_guid(req) ==
    LET ws == is_websocket(req)
    IN IF ws.exc # "none" THEN ws
       ELSE IF ws.ret # "True" THEN Raised("RuntimeError")
       ELSE Returned(b64_sha1(req.key))

\* parse_websocket_key that does not ask is_websocket first
parse_websocket_key_unguarded(req) ==
    Returned(b64_sha1(req.key \o GUID))

\* Request.parse_websocket_key
parse_websocket_key(req) ==
    LET ws == is_websocket(req)
    IN IF ws.exc # "none" THEN ws
       ELSE IF ws.ret # "True" THEN Raised("RuntimeError")
       ELSE Returned(b64_sha1(req.key \o GUID))

\* the response class of status 101, before any header is added
SwitchingProtocols == [status |-> "101", headers |-> {}]

\* the headers handshake puts on the SwitchingProtocols response
handshake_headers(key, extensions, subprotocols) ==
    LET base == {<<"Upgrade", "websocket">>, <<"Connection", "Upgrade">>,
                 <<"Sec-WebSocket-Accept", key>>}
        ext == IF extensions = "None" THEN {}
               ELSE {<<"Sec-WebSocket-Extensions", extensions>>}
        sub == IF subprotocols = "None" THEN {}
               ELSE {<<"Sec-WebSocket-Protocol", subprotocols>>}
    IN base \cup ext \cup sub

\* Request.handshake: the exception it raises and the writes on the connection
handshake(req, written, extensions, subprotocols) ==
    LET key == parse_websocket_key(req)
    IN IF key.exc # "none"
       THEN [exc |-> key.exc, written |-> written]
       ELSE [exc |-> "none",
             written |-> Append(written,
                 [SwitchingProtocols EXCEPT
                     !.headers = handshake_headers(key.ret, extensions, subprotocols)])]

--------------------------------------------------------------------------------
\* SpecShake: one request, on which is_websocket and handshake are called.

\* the request line and headers of the request under test
ShakeRequest ==
    [method |-> shake.method, version |-> shake.version, present |-> shake.present,
     upgrade |-> shake.upgrade, wsversion |-> shake.wsversion, key |-> shake.key]

InitShake ==
    /\ Idle
    /\ Constructed
    /\ parsed = NoParse
    /\ stream = NoStream
    /\ client = NoClient
    /\ dual = NoDual
    /\ evloop = NoLoop
    /\ routes = <<>>
    /\ listeners = <<>>
    /\ middlewares = <<>>
    /\ resources = {}
    /\ robj = [r \in RouteIds |-> [cb |-> 0, after |-> 0, middlewares |-> RouteMiddlewares(r)]]
    /\ mobj = [m \in MwIds |-> 0]
    /\ lobj = [l \in ListenerIds |-> 0]
    /\ nops = 0
    /\ lastOp = Op("init", 0, "none")
    /\ snap = [obj |-> "none", view |-> [routes |-> {}, listeners |-> <<>>, middlewares |-> <<>>]]
    /\ \E m \in {"GET", "POST"}, v \in {"HTTP/1.1", "HTTP/1.0"}, h \in SUBSET required,
          u \in {"websocket", "WebSocket", "h2c"}, w \in {"13", "8"},
          k \in {"dGhlIHNhbXBsZSBub25jZQ==", "AQIDBAUGBwgJCgsMDQ4PEA==", "c2hvcnQ=", "abc"} :
           shake = [NoShake EXCEPT !.method = m, !.version = v, !.present = h,
                                   !.upgrade = u, !.wsversion = w, !.key = k]

IsWebsocket ==
    /\ shake.op = "none"
    /\ LET ws == is_websocket(ShakeRequest)
       IN shake' = [shake EXCEPT !.op = "is_websocket", !.ret = ws.ret, !.exc = ws.exc]
    /\ UNCHANGED <<regVars, serveVars, lifeVars, parsed, stream, client, dual, evloop>>

Handshake(extensions, subprotocols) ==
    /\ shake.op \in {"none", "is_websocket"}
    /\ LET hs == handshake(ShakeRequest, shake.written, extensions, subprotocols)
       IN shake' = [shake EXCEPT !.op = "handshake", !.ret = "none", !.exc = hs.exc,
                                 !.written = hs.written]
    /\ UNCHANGED <<regVars, serveVars, lifeVars, parsed, stream, client, dual, evloop>>

NextShake ==
    \/ IsWebsocket
    \/ \E e \in {"None", "permessage-deflate"}, p \in {"None", "chat"} : Handshake(e, p)

SpecShake == InitShake /\ [][NextShake]_vars

\* the conditions of a websocket upgrade request
UpgradeConditions ==
    /\ shake.method = "GET"
    /\ shake.version = "HTTP/1.1"
    /\ {"Host", "Upgrade", "Connection", "Sec-WebSocket-Version", "Sec-WebSocket-Key"}
           \subseteq shake.present
    /\ shake.upgrade \in {"websocket", "WebSocket", "WEBSOCKET"}
    /\ shake.wsversion = "13"
    /\ ~b64decode(shake.key).err
    /\ b64decode(shake.key).len = 16

\* C23: is_websocket() returns true exactly when the method is GET, the version
\* is HTTP/1.1, the five headers are present, Upgrade is 'websocket' ignoring
\* case, Sec-WebSocket-Version is 13 and the key decodes to 16 bytes; when any
\* one of these fails it returns false.
C23_IsWebsocketReturnsBoolean ==
    shake.op = "is_websocket" =>
        /\ shake.exc = "none"
        /\ shake.ret = IF UpgradeConditions THEN "True" ELSE "False"

\* C24: handshake() writes one 101 response carrying Upgrade: websocket,
\* Connection: Upgrade and Sec-WebSocket-Accept only for a request for which
\* is_websocket() is true; for any other request it raises and writes nothing.
C24_HandshakeOnlyForWebsocket ==
    shake.op = "handshake" =>
        IF is_websocket(ShakeRequest) = Returned("True")
        THEN /\ shake.exc = "none"
             /\ Len(shake.written) = 1
             /\ shake.written[1].status = "101"
             /\ {<<"Upgrade", "websocket">>, <<"Connection", "Upgrade">>}
                    \subseteq shake.written[1].headers
             /\ \E h \in shake.written[1].headers : h[1] = "Sec-WebSocket-Accept"
        ELSE /\ shake.exc # "none"
             /\ shake.written = <<>>

\* C24 witness: a handshake answered an upgrade request with one response
C24_Witness ==
    /\ shake.op = "handshake"
    /\ UpgradeConditions
    /\ Len(shake.written) = 1

\* the Sec-WebSocket-Accept values of the responses written
AcceptValues ==
    {h[2] : h \in {g \in UNION {shake.written[i].headers : i \in 1..Len(shake.written)} :
                       g[1] = "Sec-WebSocket-Accept"}}

\* C25: for a 16-byte key sent base64-encoded in Sec-WebSocket-Key, the accept
\* value is base64(sha1(key text + "258EAFA5-E914-47DA-95CA-C5AB0DC85B11")); for
\* dGhlIHNhbXBsZSBub25jZQ== it is s3pPLMBiTxaQ9kYGzzhZRbK+xOo=.
C25_AcceptKey ==
    (shake.op = "handshake" /\ shake.written # <<>>) =>
        /\ AcceptValues =
               {b64_sha1(shake.key \o "258EAFA5-E914-47DA-95CA-C5AB0DC85B11")}
        /\ shake.key = "dGhlIHNhbXBsZSBub25jZQ==" =>
               AcceptValues = {"s3pPLMBiTxaQ9kYGzzhZRbK+xOo="}

\* C25 witness: the handshake of the sample key was written
C25_Witness ==
    /\ shake.op = "handshake"
    /\ shake.key = "dGhlIHNhbXBsZSBub25jZQ=="
    /\ Len(shake.written) = 1
    /\ b64decode(shake.key).len = 16

--------------------------------------------------------------------------------
\* SpecBody: the body of one request is read with stream() or read() while the
\* peer sends, stays silent or closes.  Bytes are counted in blocks, each
\* smaller than the 65536 bytes one read asks for; the blocks the peer sends
\* are the body followed by the start of the next request on the connection.
\* The blocks are numbered in the order the reader receives them: stream.taken
\* is the number of blocks read from the reader, stream.body the blocks in
\* _body, stream.rets the bodies the read() calls returned.

\* StreamReader.at_eof: the peer closed and the buffer is drained
at_eof(st) == st.eof /\ st.buffered = 0

\* read() that appends every chunk twice
read_chunk_twice(buf, chunk) == buf \o chunk \o chunk

\* read(): self._body += chunk
read_chunk(buf, chunk) == buf \o chunk

\* the start of stream(timeout=passed): without Content-Length it yields b''
\* and returns, otherwise it enters the read loop
stream_begin(st, passed) ==
    IF st.length = 0
    THEN [st EXCEPT !.pc = "done", !.passed = passed]
    ELSE [st EXCEPT !.pc = "loop", !.passed = passed]

InitBody ==
    /\ Idle
    /\ Constructed
    /\ parsed = NoParse
    /\ shake = NoShake
    /\ client = NoClient
    /\ dual = NoDual
    /\ evloop = NoLoop
    /\ routes = <<>>
    /\ listeners = <<>>
    /\ middlewares = <<>>
    /\ resources = {}
    /\ robj = [r \in RouteIds |-> [cb |-> 0, after |-> 0, middlewares |-> RouteMiddlewares(r)]]
    /\ mobj = [m \in MwIds |-> 0]
    /\ lobj = [l \in ListenerIds |-> 0]
    /\ nops = 0
    /\ lastOp = Op("init", 0, "none")
    /\ snap = [obj |-> "none", view |-> [routes |-> {}, listeners |-> <<>>, middlewares |-> <<>>]]
    /\ \E length \in 0..2, following \in 0..1 :
       \E buffered \in 0..(length + following) :
           stream = [NoStream EXCEPT !.length = length, !.buffered = buffered,
                                     !.coming = length + following - buffered]

\* stream(timeout=...) is called and advanced to its first step
Stream(timeout) ==
    /\ stream.pc = "none"
    /\ stream.ncalls < MaxBodyCalls
    /\ stream' = stream_begin([stream EXCEPT !.op = "stream", !.timeout = timeout,
                                             !.ncalls = @ + 1], timeout)
    /\ UNCHANGED <<regVars, serveVars, lifeVars, parsed, shake, client, dual, evloop>>

\* read(timeout=...) is called: at EOF it returns the body it has, otherwise it
\* iterates stream(), to which it passes no timeout
Read(timeout) ==
    /\ stream.pc = "none"
    /\ stream.ncalls < MaxBodyCalls
    /\ stream' = IF at_eof(stream)
                 THEN [stream EXCEPT !.op = "read", !.timeout = timeout, !.pc = "done",
                                     !.ncalls = @ + 1]
                 ELSE stream_begin([stream EXCEPT !.op = "read", !.timeout = timeout,
                                                  !.ncalls = @ + 1], FALSE)
    /\ UNCHANGED <<regVars, serveVars, lifeVars, parsed, shake, client, dual, evloop>>

\* while not reader.at_eof()
LoopTest ==
    /\ stream.pc = "loop"
    /\ stream' = [stream EXCEPT !.pc = IF at_eof(stream) THEN "done" ELSE "reading"]
    /\ UNCHANGED <<regVars, serveVars, lifeVars, parsed, shake, client, dual, evloop>>

\* reader.read(65536) returns what is buffered and the chunk is yielded
ReadData ==
    /\ stream.pc = "reading"
    /\ stream.buffered > 0
    /\ LET chunk == [j \in 1..stream.buffered |-> stream.taken + j]
       IN stream' = [stream EXCEPT !.yielded = @ + stream.buffered, !.buffered = 0,
                       !.taken = @ + stream.buffered,
                       !.body = IF stream.op = "read" THEN read_chunk(@, chunk) ELSE @,
                       !.pc = "loop"]
    /\ UNCHANGED <<regVars, serveVars, lifeVars, parsed, shake, client, dual, evloop>>

\* the peer closed during the read: the empty rest is yielded
ReadEof ==
    /\ stream.pc = "reading"
    /\ at_eof(stream)
    /\ stream' = [stream EXCEPT !.pc = "loop"]
    /\ UNCHANGED <<regVars, serveVars, lifeVars, parsed, shake, client, dual, evloop>>

\* the call is over: read() returns self._body; the next call can be made
Return ==
    /\ stream.pc = "done"
    /\ stream' = [stream EXCEPT !.pc = "none",
                    !.rets = IF stream.op = "read" THEN Append(@, stream.body) ELSE @]
    /\ UNCHANGED <<regVars, serveVars, lifeVars, parsed, shake, client, dual, evloop>>

\* the caller's timeout passes with no data: a read that was given the timeout
\* raises asyncio.TimeoutError, which stream() catches to read again; a read
\* that was given none goes on waiting
Elapse ==
    /\ stream.pc = "reading"
    /\ stream.buffered = 0
    /\ ~stream.eof
    /\ stream.timeout
    /\ stream.timeouts < MaxWaits
    /\ stream' = [stream EXCEPT !.timeouts = @ + 1,
                                !.pc = IF stream.passed THEN "loop" ELSE "reading"]
    /\ UNCHANGED <<regVars, serveVars, lifeVars, parsed, shake, client, dual, evloop>>

\* a block sent by the peer reaches the reader's buffer
Arrive ==
    /\ stream.pc # "done"
    /\ ~stream.eof
    /\ stream.coming > 0
    /\ stream' = [stream EXCEPT !.buffered = @ + 1, !.coming = @ - 1]
    /\ UNCHANGED <<regVars, serveVars, lifeVars, parsed, shake, client, dual, evloop>>

\* the peer closes the connection
PeerClose ==
    /\ stream.pc # "done"
    /\ ~stream.eof
    /\ stream' = [stream EXCEPT !.eof = TRUE, !.coming = 0]
    /\ UNCHANGED <<regVars, serveVars, lifeVars, parsed, shake, client, dual, evloop>>

NextBody ==
    \/ \E t \in BOOLEAN : Stream(t)
    \/ \E t \in BOOLEAN : Read(t)
    \/ LoopTest
    \/ ReadData
    \/ ReadEof
    \/ Return
    \/ Elapse
    \/ Arrive
    \/ PeerClose

SpecBody == InitBody /\ [][NextBody]_vars

\* C28: stream() terminates once the Content-Length bytes have been yielded: it
\* yields no byte beyond the body and starts no further read, so it neither
\* waits for the peer to close nor consumes bytes of a following request.
C28_StreamStopsAtContentLength ==
    /\ stream.yielded <= stream.length
    /\ stream.pc = "reading" => stream.yielded < stream.length

\* C29: read(timeout=t) and stream(timeout=t) fail with the timeout error once
\* t has passed with no body data, instead of retrying or waiting on.
C29_TimeoutFails ==
    stream.timeouts > 0 => stream.exc = "TimeoutError"

--------------------------------------------------------------------------------
\* The writes of Request.send (SpecServe).

\* the data written for the current request by the pipeline, in order
SentData == [i \in 1..Len(PipelineWrites) |-> PipelineWrites[i].data]

\* C30: send() of a streaming response writes the prepared preamble before any
\* chunk and then the chunks in the order the stream produces them, one drained
\* write after the other; for a non-streaming response exactly one write is made.
C30_PreambleThenChunksInOrder ==
    (cur.handler = "returned" /\ cur.pc \in {"send", "after", "done"}) =>
        LET all == <<"preamble">> \o cur.chunks
        IN /\ Len(SentData) <= Len(all)
           /\ SentData = SubSeq(all, 1, Len(SentData))
           /\ (cur.pc = "after" \/ cur.outcome = "returned") => SentData = all
           /\ (cur.ret # "stream" /\ (cur.pc = "after" \/ cur.outcome = "returned"))
                  => Len(SentData) = 1

\* C30 witness: a streaming response was sent completely
C30_Witness ==
    /\ cur.handler = "returned"
    /\ cur.ret = "stream"
    /\ cur.outcome = "returned"
    /\ SentData = <<"preamble", "c1", "c2">>

--------------------------------------------------------------------------------
\* The client side of a connection: Client and its ClientProtocol.
\*
\* client.protocol, connected, closed   Client._protocol is set, _connected, _closed
\* client.made                          connection_made ran: reader and writer are set
\* client.waiter                        ClientProtocol.waiter: "None", "pending", or
\*                                      "resolved" (result set, attribute back to None)
\* client.futs, client.wwaiter          the futures pause_writing created and the one
\*                                      that is writer._waiter (0: None)
\* client.paused, pauses                the transport is paused; its pause signals
\* client.npause, nresume               pause and resume signals since connection_made
\* client.lost                          "no", or how the transport lost the connection
\* client.ops                           the calls made on the Client, each with the
\*                                      state it is in, whether it did I/O, the future
\*                                      its write awaits (since), the pause it was
\*                                      made in (during) and whether a connect() had
\*                                      completed and no close() had (allowed)

\* Client.is_connected
is_connected(c) == c.connected /\ c.protocol

\* _ensure_connection that does not look at is_closed
ensure_connection_ignores_closed(c) ==
    IF ~is_connected(c) THEN "RuntimeError" ELSE "none"

\* Client._ensure_connection: the exception it raises
ensure_connection(c) ==
    IF ~is_connected(c) THEN "RuntimeError"
    ELSE IF c.closed THEN "RuntimeError"
    ELSE "none"

\* ClientProtocol.pause_writing: a new future becomes writer._waiter
pause_writing(c) ==
    IF ~c.made THEN c
    ELSE [c EXCEPT !.futs = Append(@, "pending"), !.wwaiter = Len(c.futs) + 1]

\* resume_writing that leaves writer._waiter unresolved
resume_writing_no_result(c) == c

\* ClientProtocol.resume_writing: the result of writer._waiter is set
resume_writing(c) ==
    IF ~c.made THEN c
    ELSE IF c.wwaiter # 0 THEN [c EXCEPT !.futs[c.wwaiter] = "done"]
    ELSE c

\* ClientProtocol.connection_lost: with an exception it raises it and goes no
\* further; without one it resolves the waiter and forgets it
connection_lost(c, exc) ==
    IF exc THEN c
    ELSE IF c.waiter # "pending" THEN c
    ELSE [c EXCEPT !.waiter = "resolved"]

\* StreamWriter.write: the future the write has to await before it writes to
\* the transport (0: none)
writer_write(c) ==
    IF c.wwaiter # 0 /\ c.futs[c.wwaiter] = "pending" THEN c.wwaiter ELSE 0

\* a call on the Client as it is recorded when it is made
ClientOp(c, op, state, exc, io) ==
    [op |-> op, state |-> state, exc |-> exc, io |-> io, since |-> 0,
     during |-> IF c.npause > c.nresume THEN c.npause ELSE 0,
     allowed |-> /\ \E j \in 1..Len(c.ops) : c.ops[j].op = "connect" /\ c.ops[j].state = "done"
                 /\ ~\E j \in 1..Len(c.ops) : c.ops[j].op = "close" /\ c.ops[j].state = "done"]

--------------------------------------------------------------------------------
\* SpecClient: one Client; connect, write, writelines, receive and close are
\* called on it while the transport makes and loses the connection and signals
\* pause and resume.

InitClient ==
    /\ Idle
    /\ Constructed
    /\ parsed = NoParse
    /\ shake = NoShake
    /\ stream = NoStream
    /\ routes = <<>>
    /\ listeners = <<>>
    /\ middlewares = <<>>
    /\ resources = {}
    /\ robj = [r \in RouteIds |-> [cb |-> 0, after |-> 0, middlewares |-> RouteMiddlewares(r)]]
    /\ mobj = [m \in MwIds |-> 0]
    /\ lobj = [l \in ListenerIds |-> 0]
    /\ nops = 0
    /\ lastOp = Op("init", 0, "none")
    /\ snap = [obj |-> "none", view |-> [routes |-> {}, listeners |-> <<>>, middlewares |-> <<>>]]
    /\ client = NoClient
    /\ dual = NoDual
    /\ evloop = NoLoop

\* connect() up to its await: the protocol is created and stored
Connect ==
    /\ Len(client.ops) < MaxClientOps
    /\ ~client.protocol
    /\ client' = [client EXCEPT !.protocol = TRUE,
                    !.ops = Append(@, ClientOp(client, "connect", "waiting", "none", FALSE))]
    /\ UNCHANGED <<regVars, serveVars, lifeVars, parsed, shake, stream, dual, evloop>>

\* the transport is connected: connection_made
ConnectionMade ==
    /\ client.protocol
    /\ ~client.made
    /\ \E i \in 1..Len(client.ops) : client.ops[i].op = "connect" /\ client.ops[i].state = "waiting"
    /\ client' = [client EXCEPT !.made = TRUE, !.waiter = "pending"]
    /\ UNCHANGED <<regVars, serveVars, lifeVars, parsed, shake, stream, dual, evloop>>

\* loop.create_connection returns and connect() finishes
ConnectDone(i) ==
    /\ i \in 1..Len(client.ops)
    /\ client.ops[i].op = "connect"
    /\ client.ops[i].state = "waiting"
    /\ client.made
    /\ client' = [client EXCEPT !.connected = TRUE, !.ops[i].state = "done"]
    /\ UNCHANGED <<regVars, serveVars, lifeVars, parsed, shake, stream, dual, evloop>>

\* loop.create_connection raises: connect() ends with the protocol stored
ConnectFail(i) ==
    /\ i \in 1..Len(client.ops)
    /\ client.ops[i].op = "connect"
    /\ client.ops[i].state = "waiting"
    /\ ~client.made
    /\ client' = [client EXCEPT !.ops[i].state = "raised", !.ops[i].exc = "OSError"]
    /\ UNCHANGED <<regVars, serveVars, lifeVars, parsed, shake, stream, dual, evloop>>

\* write() or writelines(): _ensure_connection, then the writer's write, which
\* waits for writer._waiter when the writer is paused
ClientWrite(op) ==
    /\ Len(client.ops) < MaxClientOps
    /\ LET exc == ensure_connection(client)
           fut == writer_write(client)
       IN client' = [client EXCEPT !.ops = Append(@,
              IF exc # "none" THEN ClientOp(client, op, "raised", exc, FALSE)
              ELSE IF fut # 0
                   THEN [ClientOp(client, op, "suspended", "none", FALSE) EXCEPT !.since = fut]
                   ELSE ClientOp(client, op, "done", "none", TRUE))]
    /\ UNCHANGED <<regVars, serveVars, lifeVars, parsed, shake, stream, dual, evloop>>

\* a suspended write whose future has its result goes on to the transport
WriteResume(i) ==
    /\ i \in 1..Len(client.ops)
    /\ client.ops[i].state = "suspended"
    /\ client.futs[client.ops[i].since] = "done"
    /\ client' = [client EXCEPT !.ops[i].state = "done", !.ops[i].io = TRUE]
    /\ UNCHANGED <<regVars, serveVars, lifeVars, parsed, shake, stream, dual, evloop>>

\* receive(): _ensure_connection, then the reader's read
Receive ==
    /\ Len(client.ops) < MaxClientOps
    /\ LET exc == ensure_connection(client)
       IN client' = [client EXCEPT !.ops = Append(@,
              IF exc # "none" THEN ClientOp(client, "receive", "raised", exc, FALSE)
              ELSE ClientOp(client, "receive", "done", "none", TRUE))]
    /\ UNCHANGED <<regVars, serveVars, lifeVars, parsed, shake, stream, dual, evloop>>

\* close(): _ensure_connection, writer.close(), then wait_for_close, which
\* returns at once unless the waiter is pending
ClientClose ==
    /\ Len(client.ops) < MaxClientOps
    /\ LET exc == ensure_connection(client)
       IN client' =
              IF exc # "none"
              THEN [client EXCEPT !.ops = Append(@, ClientOp(client, "close", "raised", exc, FALSE))]
              ELSE IF client.waiter = "pending"
              THEN [client EXCEPT !.ops = Append(@, ClientOp(client, "close", "waiting", "none", TRUE))]
              ELSE [client EXCEPT !.closed = TRUE,
                                  !.ops = Append(@, ClientOp(client, "close", "done", "none", TRUE))]
    /\ UNCHANGED <<regVars, serveVars, lifeVars, parsed, shake, stream, dual, evloop>>

\* the waiter a close() awaits has its result: close() sets _closed and returns
CloseDone(i) ==
    /\ i \in 1..Len(client.ops)
    /\ client.ops[i].op = "close"
    /\ client.ops[i].state = "waiting"
    /\ client.waiter = "resolved"
    /\ client' = [client EXCEPT !.closed = TRUE, !.ops[i].state = "done"]
    /\ UNCHANGED <<regVars, serveVars, lifeVars, parsed, shake, stream, dual, evloop>>

\* the transport reports the connection lost, with or without an exception
ConnectionLost(exc) ==
    /\ client.made
    /\ client.lost = "no"
    /\ client' = [connection_lost(client, exc) EXCEPT
                     !.lost = IF exc THEN "error" ELSE "clean"]
    /\ UNCHANGED <<regVars, serveVars, lifeVars, parsed, shake, stream, dual, evloop>>

\* the transport signals pause_writing; it does so once until it resumes
PauseWriting ==
    /\ client.protocol
    /\ client.lost = "no"
    /\ ~client.paused
    /\ client.pauses < MaxPauses
    /\ client' = [pause_writing(client) EXCEPT
                     !.paused = TRUE, !.pauses = @ + 1,
                     !.npause = IF client.made THEN @ + 1 ELSE @]
    /\ UNCHANGED <<regVars, serveVars, lifeVars, parsed, shake, stream, dual, evloop>>

\* the transport signals resume_writing after a pause
ResumeWriting ==
    /\ client.protocol
    /\ client.lost = "no"
    /\ client.paused
    /\ client' = [resume_writing(client) EXCEPT
                     !.paused = FALSE,
                     !.nresume = IF client.npause > @ THEN @ + 1 ELSE @]
    /\ UNCHANGED <<regVars, serveVars, lifeVars, parsed, shake, stream, dual, evloop>>

NextClient ==
    \/ Connect
    \/ ConnectionMade
    \/ \E i \in 1..MaxClientOps : ConnectDone(i)
    \/ \E i \in 1..MaxClientOps : ConnectFail(i)
    \/ \E op \in {"write", "writelines"} : ClientWrite(op)
    \/ \E i \in 1..MaxClientOps : WriteResume(i)
    \/ Receive
    \/ ClientClose
    \/ \E i \in 1..MaxClientOps : CloseDone(i)
    \/ \E exc \in BOOLEAN : ConnectionLost(exc)
    \/ PauseWriting
    \/ ResumeWriting

SpecClient == InitClient /\ [][NextClient]_vars

\* the writes the Client passed on to the writer
WriterWrites ==
    {i \in 1..Len(client.ops) :
        client.ops[i].op \in {"write", "writelines"} /\ client.ops[i].exc = "none"}

\* C31: after a pause_writing signal a write stays suspended until the next
\* resume_writing, and that resume_writing releases every write suspended since
\* the pause; pause and resume signals before the connection is made are ignored.
C31_WritesSuspendedBetweenPauseAndResume ==
    /\ \A i \in WriterWrites :
          client.ops[i].during > 0 =>
              /\ client.ops[i].state = "done" => client.nresume >= client.ops[i].during
              /\ (client.ops[i].state = "suspended" /\ client.nresume >= client.ops[i].during)
                     => client.futs[client.ops[i].since] = "done"
    /\ ~client.made => (client.futs = <<>> /\ client.wwaiter = 0)

\* C31 witness: a write made while the writer was paused has been written
\* after the resume
C31_Witness ==
    \E i \in WriterWrites :
        /\ client.ops[i].during > 0
        /\ client.ops[i].state = "done"
        /\ client.ops[i].io

\* C38: write, writelines, receive and close raise RuntimeError and do no I/O
\* unless a connect() has completed and no close() has completed.
C38_NoIoUnlessConnectedAndOpen ==
    \A i \in 1..Len(client.ops) :
        (client.ops[i].op # "connect" /\ ~client.ops[i].allowed) =>
            (client.ops[i].exc = "RuntimeError" /\ ~client.ops[i].io)

\* C38 witness: a close() made after a completed close() raised
C38_Witness ==
    \E i, j \in 1..Len(client.ops) :
        /\ i < j
        /\ client.ops[i].op = "close" /\ client.ops[i].state = "done"
        /\ client.ops[j].op = "close" /\ client.ops[j].exc = "RuntimeError"
        /\ ~client.ops[j].io

\* C39: once the transport has reported the connection lost, with or without
\* an error, the close waiter is resolved, so that no wait_for_close() and no
\* close() stays waiting.
C39_WaiterResolvedOnceLost ==
    client.lost # "no" => client.waiter # "pending"

--------------------------------------------------------------------------------
\* SpecDual: one call of dualstack_ipv6, statement by statement.
\*
\* dual.n            the worker_count the call works with
\* dual.port         the port argument (0: None); dual.app_port: app.port
\* dual.id, dual.i   the local id and the loop index
\* dual.built        the local list workers: the Workers made, each with its id
\*                   and the socket it was given
\* dual.workers      app._workers in insertion order; dual.worker_count: app.worker_count

\* Application.add_worker on the application of the call
add_worker(d, worker) ==
    IF \E j \in 1..Len(d.workers) : d.workers[j].id = worker.id
    THEN [d EXCEPT !.pc = "raised", !.exc = "ValueError"]
    ELSE [d EXCEPT !.workers = Append(@, worker)]

\* one pass of the first loop: Worker(app, id) on the IPv4 socket, then id += 1
ipv4_pass(d) ==
    [d EXCEPT !.built = Append(@, [id |-> d.id, socket |-> "ipv4"]),
              !.id = @ + 1, !.i = @ + 1]

\* a second loop that gives its workers the IPv4 socket
ipv6_pass_same_socket(d) ==
    [d EXCEPT !.built = Append(@, [id |-> d.id + 1, socket |-> "ipv4"]),
              !.id = @ + 1, !.i = @ + 1]

\* one pass of the second loop: id += 1, then Worker(app, id) on the IPv6 socket
ipv6_pass(d) ==
    [d EXCEPT !.built = Append(@, [id |-> d.id + 1, socket |-> "ipv6"]),
              !.id = @ + 1, !.i = @ + 1]

InitDual ==
    /\ Idle
    /\ Constructed
    /\ parsed = NoParse
    /\ shake = NoShake
    /\ stream = NoStream
    /\ client = NoClient
    /\ routes = <<>>
    /\ listeners = <<>>
    /\ middlewares = <<>>
    /\ resources = {}
    /\ robj = [r \in RouteIds |-> [cb |-> 0, after |-> 0, middlewares |-> RouteMiddlewares(r)]]
    /\ mobj = [m \in MwIds |-> 0]
    /\ lobj = [l \in ListenerIds |-> 0]
    /\ nops = 0
    /\ lastOp = Op("init", 0, "none")
    /\ snap = [obj |-> "none", view |-> [routes |-> {}, listeners |-> <<>>, middlewares |-> <<>>]]
    /\ dual = NoDual
    /\ evloop = NoLoop

\* the call up to the sockets: without dual-stack support it raises; otherwise
\* the application is made with no workers and worker_count is taken from the
\* keyword arguments, or cpu_count() + 1
DualCall(has_dualstack, port, given, count, cpus) ==
    /\ dual.pc = "none"
    /\ dual' = IF ~has_dualstack
               THEN [dual EXCEPT !.pc = "raised", !.exc = "RuntimeError", !.port = port]
               ELSE [dual EXCEPT !.pc = "ipv4", !.port = port,
                                 !.app_port = IF port = 0 THEN 8080 ELSE port,
                                 !.n = IF given THEN count ELSE cpus + 1]
    /\ UNCHANGED <<regVars, serveVars, lifeVars, parsed, shake, stream, client, evloop>>

\* for i in range(worker_count), first loop
Ipv4Loop ==
    /\ dual.pc = "ipv4"
    /\ dual' = IF dual.i < dual.n THEN ipv4_pass(dual)
               ELSE [dual EXCEPT !.pc = "ipv6", !.i = 0]
    /\ UNCHANGED <<regVars, serveVars, lifeVars, parsed, shake, stream, client, evloop>>

\* for i in range(worker_count), second loop
Ipv6Loop ==
    /\ dual.pc = "ipv6"
    /\ dual' = IF dual.i < dual.n THEN ipv6_pass(dual)
               ELSE [dual EXCEPT !.pc = "add", !.i = 0]
    /\ UNCHANGED <<regVars, serveVars, lifeVars, parsed, shake, stream, client, evloop>>

\* for worker in workers: app.add_worker(worker); then app.worker_count =
\* len(workers) and the application is returned
AddLoop ==
    /\ dual.pc = "add"
    /\ dual' = IF dual.i < Len(dual.built)
               THEN add_worker([dual EXCEPT !.i = @ + 1], dual.built[dual.i + 1])
               ELSE [dual EXCEPT !.pc = "returned", !.worker_count = Len(dual.built)]
    /\ UNCHANGED <<regVars, serveVars, lifeVars, parsed, shake, stream, client, evloop>>

NextDual ==
    \/ \E h \in BOOLEAN, port \in {0, 8080, 9000},
          given \in BOOLEAN, count \in 0..MaxWorkers, cpus \in 1..2 :
            DualCall(h, port, given, count, cpus)
    \/ Ipv4Loop
    \/ Ipv6Loop
    \/ AddLoop

SpecDual == InitDual /\ [][NextDual]_vars

\* the workers of the application that are bound to a socket
BoundTo(sock) == {j \in 1..Len(dual.workers) : dual.workers[j].socket = sock}

\* C32: dualstack_ipv6 with n workers per address family returns an application
\* with exactly 2n workers with pairwise distinct ids, n bound to the IPv4
\* socket and n to the IPv6 socket, and a worker_count of 2n.
C32_DualstackWorkers ==
    /\ dual.pc \in {"none", "raised"} \/ dual.exc = "none"
    /\ dual.pc = "returned" =>
          /\ Len(dual.workers) = 2 * dual.n
          /\ \A j, k \in 1..Len(dual.workers) :
                 j # k => dual.workers[j].id # dual.workers[k].id
          /\ Cardinality(BoundTo("ipv4")) = dual.n
          /\ Cardinality(BoundTo("ipv6")) = dual.n
          /\ dual.worker_count = 2 * dual.n

\* C32 witness: a call for three workers per family returned
C32_Witness ==
    /\ dual.pc = "returned"
    /\ dual.n = 3
    /\ Len(dual.workers) = 6

--------------------------------------------------------------------------------
\* The reaping of listener tasks (SpecEvents).

\* C33: a dispatch removes every listener task that had completed before it,
\* so the tasks tracked right after a dispatch are all still to run, whatever
\* the number and positions of the completed tasks.
C33_DispatchReapsEveryDoneTask ==
    [][calls'.dispatches # calls.dispatches =>
          \A i \in 1..Len(active') : active'[i].state = "pending"]_vars

--------------------------------------------------------------------------------
\* SpecRun: run() from the moment it is interrupted.  The application was
\* started by run(), its startup listeners have run, and its loop is in
\* run_forever(); KeyboardInterrupt makes
\* run() call loop.run_until_complete(self.close()) and then loop.stop().
\*
\* evloop.ready     the loop's queue of ready callbacks, first in first out: the
\*                  next step of close(), of a cancelled worker task, of a
\*                  listener task, or the callback
\*                  that run_until_complete attached to close() to stop the loop
\* evloop.todo      how many of them the running iteration of the loop has left:
\*                  an iteration runs the callbacks that were ready when it began
\* evloop.stopping  loop.stop() was called: the loop ends with this iteration
\* evloop.k         the worker whose stop() the close() call awaits next

\* the steps create_task makes ready for the tasks dispatch added
listener_steps(before, after) ==
    [j \in 1..(Len(after) - Len(ensure_listeners(before))) |->
        [kind |-> "listener", task |-> Len(ensure_listeners(before)) + j]]

\* an application with two listeners for the shutdown event
ConfigR ==
    add_event_listener(
        add_event_listener(Fresh, Callback("u_down", 0), "on_shutdown").st,
        Callback("u_err", 0), "on_shutdown").st

InitRun ==
    /\ parsed = NoParse
    /\ shake = NoShake
    /\ stream = NoStream
    /\ client = NoClient
    /\ dual = NoDual
    /\ \E cfg \in {Fresh, ConfigE, ConfigR} :
          /\ routes = cfg.routes
          /\ listeners = cfg.listeners
          /\ middlewares = cfg.middlewares
          /\ resources = cfg.resources
          /\ robj = cfg.robj
          /\ mobj = cfg.mobj
          /\ lobj = cfg.lobj
    /\ nops = 0
    /\ lastOp = Op("init", 0, "none")
    /\ snap = [obj |-> "none", view |-> [routes |-> {}, listeners |-> <<>>, middlewares |-> <<>>]]
    /\ loop = TRUE
    /\ \E ends \in [1..2 -> {"done", "raised"}] :
          LET started == dispatch(<<>>, listeners, TRUE, "startup", NoArgs)
          IN active = [i \in 1..Len(started) |-> [started[i] EXCEPT !.state = ends[i]]]
    /\ wstasks = <<>>
    /\ conn = "closed"
    /\ writer = "closed"
    /\ wire = <<>>
    /\ nreq = 0
    /\ cur = NoRequest
    /\ orphans = {}
    /\ workers = [w \in WorkerIds |-> "serving"]
    /\ worker_tasks = [i \in 1..Len(WorkerList) |-> [worker |-> WorkerList[i], state |-> "running"]]
    /\ closed = FALSE
    /\ calls = [NoCalls EXCEPT !.starts = 1]
    /\ evloop = [NoLoop EXCEPT !.pc = "forever"]

\* KeyboardInterrupt leaves run_forever(); run_until_complete(self.close())
\* makes close() a task, whose first step is ready
Interrupt ==
    /\ evloop.pc = "forever"
    /\ evloop' = [evloop EXCEPT !.pc = "closing", !.ready = <<[kind |-> "close", task |-> 0]>>,
                                !.k = 1]
    /\ UNCHANGED <<regVars, serveVars, lifeVars, parsed, shake, stream, client, dual>>

\* the loop begins an iteration with the callbacks that are ready
Iterate ==
    /\ evloop.pc = "closing"
    /\ evloop.todo = 0
    /\ ~evloop.stopping
    /\ evloop.ready # <<>>
    /\ evloop' = [evloop EXCEPT !.todo = Len(evloop.ready)]
    /\ UNCHANGED <<regVars, serveVars, lifeVars, parsed, shake, stream, client, dual>>

\* a step of close(): at first every worker task is cancelled; an await
\* worker.stop() either returns within the step or ends the step, and then
\* close() is ready again once the worker has stopped
RunCloseStop(suspends) ==
    /\ evloop.todo > 0
    /\ Head(evloop.ready).kind = "close"
    /\ ~CloseStopsAwaited(evloop)
    /\ worker_tasks' = [i \in 1..Len(worker_tasks) |-> cancel(worker_tasks[i])]
    /\ workers' = [workers EXCEPT ![WorkerList[evloop.k]] = "stopped"]
    /\ LET cancelled == IF evloop.k > 1 THEN <<>>
                        ELSE [i \in 1..Len(worker_tasks) |-> [kind |-> "worker", task |-> i]]
       IN evloop' = IF suspends
                    THEN [evloop EXCEPT !.k = @ + 1, !.todo = @ - 1,
                            !.ready = Append(Tail(@) \o cancelled,
                                             [kind |-> "close", task |-> 0])]
                    ELSE [evloop EXCEPT !.k = @ + 1, !.ready = @ \o cancelled]
    /\ UNCHANGED <<regVars, serveVars, closed, calls, parsed, shake, stream, client, dual>>

\* the step of a cancelled worker task: the task ends
RunCancelled ==
    /\ evloop.todo > 0
    /\ Head(evloop.ready).kind = "worker"
    /\ worker_tasks' = [worker_tasks EXCEPT ![Head(evloop.ready).task].state = "cancelled"]
    /\ evloop' = [evloop EXCEPT !.todo = @ - 1, !.ready = Tail(@)]
    /\ UNCHANGED <<regVars, serveVars, workers, closed, calls, parsed, shake, stream, client, dual>>

\* the last step of close(): _closed = True and dispatch('shutdown'), whose
\* tasks become ready; close() returns, which makes the callback that stops
\* the loop ready
RunCloseFinish ==
    /\ evloop.todo > 0
    /\ Head(evloop.ready).kind = "close"
    /\ CloseStopsAwaited(evloop)
    /\ closed' = TRUE
    /\ active' = dispatch(active, listeners, loop, "shutdown", NoArgs)
    /\ evloop' = [evloop EXCEPT !.todo = @ - 1,
                    !.ready = Tail(@) \o listener_steps(active, active')
                                      \o <<[kind |-> "stop", task |-> 0]>>]
    /\ UNCHANGED <<regVars, parsed, shake, stream, client, dual, workers, worker_tasks, calls,
                   loop, wstasks, conn, writer, wire, nreq, cur, orphans>>

\* a step of a listener task: the listener returns, raises, or awaits
\* something, in which case its next step is ready at the earliest after the
\* callbacks that are already ready
RunListenerStep(how) ==
    /\ evloop.todo > 0
    /\ Head(evloop.ready).kind = "listener"
    /\ LET i == Head(evloop.ready).task
       IN /\ how = "await" => active[i].state = "pending"
          /\ active' = [active EXCEPT ![i].state =
                           CASE how = "return" -> "done"
                             [] how = "raise" -> "raised"
                             [] OTHER -> "suspended"]
          /\ evloop' = [evloop EXCEPT !.todo = @ - 1,
                          !.ready = IF how = "await"
                                    THEN Append(Tail(@), [kind |-> "listener", task |-> i])
                                    ELSE Tail(@)]
    /\ UNCHANGED <<regVars, lifeVars, parsed, shake, stream, client, dual, loop, wstasks, conn,
                   writer, wire, nreq, cur, orphans>>

\* the callback of run_until_complete: loop.stop()
RunStop ==
    /\ evloop.todo > 0
    /\ Head(evloop.ready).kind = "stop"
    /\ evloop' = [evloop EXCEPT !.todo = @ - 1, !.ready = Tail(@), !.stopping = TRUE]
    /\ UNCHANGED <<regVars, serveVars, lifeVars, parsed, shake, stream, client, dual>>

\* the iteration in which the loop was stopped is over: run_until_complete
\* returns, run() calls loop.stop() and returns
LoopExit ==
    /\ evloop.pc = "closing"
    /\ evloop.todo = 0
    /\ evloop.stopping
    /\ evloop' = [evloop EXCEPT !.pc = "returned"]
    /\ UNCHANGED <<regVars, serveVars, lifeVars, parsed, shake, stream, client, dual>>

NextRun ==
    \/ Interrupt
    \/ Iterate
    \/ \E suspends \in BOOLEAN : RunCloseStop(suspends)
    \/ RunCancelled
    \/ RunCloseFinish
    \/ \E how \in {"return", "raise", "await"} : RunListenerStep(how)
    \/ RunStop
    \/ LoopExit

SpecRun == InitRun /\ [][NextRun]_vars

\* C34: when run() is interrupted, every listener registered for the shutdown
\* event is executed: the tasks close() launched for it have run by the time
\* the loop is stopped and run() returns.
C34_ShutdownListenersExecuted ==
    evloop.pc = "returned" =>
        /\ Cardinality({i \in 1..Len(active) : active[i].event = "on_shutdown"})
               = ShutdownListeners
        /\ \A i \in 1..Len(active) :
               active[i].event = "on_shutdown" => active[i].state \in {"done", "raised"}

--------------------------------------------------------------------------------
\* What leaves _request_handler (SpecServe).

\* C35: no exception escapes the request handler to the connection loop: a
\* failure in converting the return value, in sending the response or in the
\* after-request callback is reported through an error event.
C35_NoExceptionEscapesHandler ==
    /\ cur.outcome # "escaped"
    /\ (cur.pc = "done" /\ cur.handler = "returned" /\ cur.outcome # "returned")
           => Len(cur.errors) = 1

\* C36: after Request.close() has completed, is_closed() returns true (so that
\* a further close() leaves the writer alone); is_closed() is false on a
\* request that was never closed.
C36_ClosedAfterClose ==
    /\ cur.closeCalled => is_closed(cur)
    /\ ~cur.closeCalled => ~is_closed(cur)

--------------------------------------------------------------------------------
\* The body buffer of a request (SpecBody).

\* C37: read() is idempotent: every read() after the first returns the same
\* bytes; the body buffer holds only blocks taken from the reader, none twice.
C37_ReadIdempotent ==
    /\ \A i, j \in 1..Len(stream.rets) : stream.rets[i] = stream.rets[j]
    /\ \A i, j \in 1..Len(stream.body) : i # j => stream.body[i] # stream.body[j]
    /\ \A i \in 1..Len(stream.body) : stream.body[i] \in 1..stream.taken

\* C37 witness: two read() calls returned a body of two blocks
C37_Witness ==
    /\ Len(stream.rets) = 2
    /\ Len(stream.rets[1]) = 2
    /\ stream.rets[2] = stream.rets[1]

\* C40: handling requests never changes the registration state: every step of
\* SpecServe leaves the routes, each route's own middleware list and the
\* global middleware list as they were, so after any number of requests they
\* hold exactly the registered entries in the registered order
C40_HandlingKeepsRegistration ==
    [][/\ routes' = routes
       /\ middlewares' = middlewares
       /\ \A r \in RouteIds : robj'[r].middlewares = robj[r].middlewares
       /\ \A r \in RouteIds : robj'[r].middlewares = RouteMiddlewares(r)]_vars

\* C40 witness: a second request is handled on the route with two middlewares
\* of its own under a global middleware, all three were run, and the lists are
\* the registered ones
C40_Witness ==
    /\ nreq = 2
    /\ cur.route = 1
    /\ Len(cur.started) = 3
    /\ cur.outcome = "returned"
    /\ robj[1].middlewares = <<"m1", "m2">>
    /\ Len(middlewares) = 1
====
